---- MODULE Spec2Model ----
(***************************************************************************)
(* A model of patronictl's administrative commands (src/patroni/ctl.py).   *)
(* One invocation of a command is one behaviour: the entry action reads a  *)
(* snapshot of the cluster from the DCS, and the following actions are the *)
(* steps of the command's code.  What the operator types at a prompt and   *)
(* what a member's REST API answers are inputs, drawn with \E.             *)
(*                                                                         *)
(* Citus worker groups are modelled only as far as the commands test for   *)
(* them (obj.get('citus') and group is None); get_all_members is modelled  *)
(* for one group.                                                          *)
(***************************************************************************)
EXTENDS Integers, Sequences, FiniteSets, TLC

\* ------------------------------------------------------------------ bounds
\* The largest number of members a snapshot holds.
MaxMembers == 3

\* ------------------------------------------------------------- the values
None == "None"

NameSeq == <<"A", "B", "C", "D", "E", "F">>

\* The member names an operator may type; those that are not members of the
\* snapshot are the unknown names.
Names == {NameSeq[i] : i \in 1..MaxMembers}

\* Python truthiness of an optional string.
Truthy(s) == s # None /\ s # ""

\* datetime values: minutes and a timezone; NoDatetime is Python's None.
NoDatetime == [none |-> TRUE]

LocalTz == "+01:00"

\* What an operator may give as --scheduled or type at the schedule prompt.
ScheduledInputs == {None, "now", "2030-01-01T12:00", "2030-01-01T12:00+00:00", "next tuesday-ish"}

\* dateutil.parser.parse: the inputs it parses, and the datetime it makes of
\* them, naive (tz = None) or aware. On the others it raises ValueError.
Parsable(s) == s \in {"2030-01-01T12:00", "2030-01-01T12:00+00:00"}

dateutil_parse(s) ==
    IF s = "2030-01-01T12:00"
    THEN [day |-> "2030-01-01", minute |-> 720, tz |-> None]
    ELSE [day |-> "2030-01-01", minute |-> 720, tz |-> "+00:00"]

\* The PatroniCtlException of parse_scheduled, as a value.
ParseError == [error |-> "Unable to parse scheduled timestamp"]

\* A parser that takes what it cannot read for no schedule at all.
parse_scheduled_lenient(scheduled) ==
    IF Parsable(scheduled)
    THEN LET d == dateutil_parse(scheduled)
         IN  IF d.tz = None THEN [d EXCEPT !.tz = LocalTz] ELSE d
    ELSE NoDatetime

\* parse_scheduled: None for an absent schedule, '' and 'now'; a timezone
\* aware datetime; or the exception when the text does not parse.
parse_scheduled(scheduled) ==
    IF (IF Truthy(scheduled) THEN scheduled ELSE "now") # "now"
    THEN IF Parsable(scheduled)
         THEN LET d == dateutil_parse(scheduled)
              IN  IF d.tz = None THEN [d EXCEPT !.tz = LocalTz] ELSE d
         ELSE ParseError
    ELSE NoDatetime

\* datetime.isoformat() of an aware datetime.
isoformat(d) ==
    d.day \o "T" \o (IF d.minute = 720 THEN "12:00:00" ELSE "00:00:00") \o d.tz

\* --------------------------------------------------------------- snapshots
\* The members of a snapshot are the first k names, for every k: which names
\* they bear matters to no command, only which are equal.
MemberSets == {{NameSeq[i] : i \in 1..k} : k \in 0..MaxMembers}

\* A Cluster snapshot, as far as the commands read it:
\*   members            the names of cluster.members, kept in the order of NameSeq
\*   leader             cluster.leader.name, or None when there is no leader
\*   leader_role        cluster.leader.data['role']
\*   nofailover         the members whose tags carry nofailover
\*   paused             get_global_config(cluster).is_paused
\*   scheduled_restart  the members whose data carry scheduled_restart
\*   failover           cluster.failover: its scheduled_at and index, or NoFailoverKey
\*   api_url            the members that have an api_url
\*   pause              the members whose data carry pause: true
\*   index              the index of each member's key, where a command reads it
NoFailoverKey == [none |-> TRUE]

NoCluster ==
    [members |-> {}, leader |-> None, leader_role |-> "master", nofailover |-> {}, paused |-> FALSE,
     scheduled_restart |-> {}, failover |-> NoFailoverKey, api_url |-> {}, pause |-> {}, index |-> <<>>]

\* The leader of a snapshot is one of its members, and tags are its members'.
IsSnapshot(c) ==
    /\ c.leader \in c.members \cup {None}
    /\ c.nofailover \subseteq c.members
    /\ c.scheduled_restart \subseteq c.members
    /\ c.api_url \subseteq c.members
    /\ c.pause \subseteq c.members

\* The snapshots the failover and switchover commands may read.
FailoverSnapshots ==
    {c \in {[NoCluster EXCEPT !.members = ms, !.leader = l, !.nofailover = nf, !.paused = p,
                              !.api_url = ms] :
                ms \in MemberSets, l \in Names \cup {None}, nf \in SUBSET Names, p \in BOOLEAN} :
        IsSnapshot(c)}

\* ------------------------------------------------------------------- state
VARIABLES
    pc,            \* the position of the command
    cmd,           \* the command line of the invocation
    cluster,       \* the snapshot read at the start of the command
    leader,        \* local of _do_failover_or_switchover
    candidate,     \* local of _do_failover_or_switchover
    scheduled_at,  \* local: the parsed schedule, or NoDatetime
    r,             \* the last response of a member's API
    api_log,       \* the requests sent to members' APIs, in order
    dcs_log,       \* the write calls made on the DCS, in order
    members,       \* local: the members the command acts on, in order
    content,       \* local of restart: the body of its requests
    pos,           \* local: the number of members the loop is done with
    prompts,       \* the prompts shown to the operator and the answers typed, in order
    err,           \* the message of the PatroniCtlException raised, or None
    exc,           \* the exception raised by a call of the command, or None
    out,           \* the outcome echoed last
    config,        \* the /config key of the DCS: its data and its index
    editors,       \* the invocations of edit-config, one for each operator
    polls,         \* local of wait_until_pause_is_applied: the turns of the polling loop so far
    polled,        \* local of wait_until_pause_is_applied: the cluster read last in the loop
    remaining,     \* local of wait_until_pause_is_applied: the members it names
    wait_on_members, \* local of reinit: the members whose reinitialize is waited for
    wpos,          \* local of reinit: the index of the for loop over wait_on_members
    waits,         \* the answers 'creating replica' reinit has got so far
    turn,          \* the members reinit has polled in the current turn of its while loop
    workers,       \* cluster.workers of the snapshot, when the groups of a Citus cluster are read
    yielded,       \* what get_all_members has yielded, in order
    listed,        \* the rows output_members hands to topology_sort
    sorted,        \* what topology_sort has yielded, in order
    fault_points,  \* FaultInjector._fault_points: the activated points, in order
    fi_threads,    \* for each thread, the fault it is about to carry out
    fi_last,       \* the last call on the fault injector: what it was, and what it returned
    fi_lock,       \* fi_lock, an RLock: the thread that owns it (0: none) and how many times
    fi_pc,         \* for each thread, where it is in its call on the fault injector
    received_sighup,   \* AbstractPatroniDaemon._received_sighup
    received_sigterm,  \* AbstractPatroniDaemon._received_sigterm
    sigterm_lock,  \* _sigterm_lock, a Lock: "free", or who holds it
    run_pc,        \* where the main thread is in run and in shutdown
    handler,       \* sigterm_handler, when it runs on top of the main thread
    api,           \* for each other thread, where it is in api_sigterm
    sigterms,      \* the SIGTERM signals delivered to the process
    trues,         \* the calls of api_sigterm that returned True (2: two or more)
    late_true,     \* api_sigterm returned True to a call made after shutdown was entered
    hup,           \* what became of the oldest SIGHUP not followed by reload_config
    term_cycles    \* the cycles started while _received_sigterm was set (2: two or more)

\* The state of one invocation of a command on members or of a failover.
ctl_vars == <<pc, cmd, cluster, leader, candidate, scheduled_at, r, api_log, dcs_log, members, content,
              pos, prompts, err, exc, out>>

\* The state those commands do not touch.
wait_locals == <<polls, polled, remaining>>

reinit_locals == <<wait_on_members, wpos, waits, turn>>

\* The state of the display functions and of the fault injector.
display_locals == <<workers, yielded, listed, sorted>>

fi_vars == <<fault_points, fi_threads, fi_last>>

\* The lock of the fault injector, where it is modelled step by step.
lock_vars == <<fi_lock, fi_pc>>

\* The daemon: its flags and lock, its threads, and what is recorded of them.
daemon_flags == <<received_sighup, received_sigterm, sigterm_lock>>

daemon_threads == <<run_pc, handler, api>>

daemon_record == <<sigterms, trues, late_true, hup, term_cycles>>

daemon_vars == <<daemon_flags, daemon_threads, daemon_record>>

apart == <<lock_vars, daemon_vars>>

aside == <<display_locals, fi_vars, apart>>

not_ctl == <<config, editors, wait_locals, reinit_locals, aside>>

vars == <<ctl_vars, not_ctl>>

\* The locals of the commands that act on a list of members.
member_locals == <<members, content, pos>>

\* The locals of failover and switchover.
failover_locals == <<leader, candidate>>

\* A response of a member's API: its status and what its body says.
Response(status, data) == [status |-> status, data |-> data]

NoResponse == Response(0, "")

NotSupportedText == "Server does not support this operation"

\* What a member's API may answer to POST /failover or /switchover.
FailoverResponses ==
    {Response(st, "") : st \in {200, 202, 412, 501}}
        \cup {Response(st, NotSupportedText) : st \in {412, 501}}

\* The command line: the command, and its arguments and options.
NoCommand ==
    [name |-> None, action |-> None, leader |-> None, candidate |-> None, force |-> FALSE,
     scheduled |-> None, member_names |-> {}, role |-> None, wait |-> FALSE, target |-> None,
     p_any |-> FALSE, cluster_name |-> None]

\* The threads that call the fault injector, and the names of the fault
\* points in the source.
MaxThreads == 2

Threads == 1..MaxThreads

FaultNames == {"inject_exception", "inject_sleep"}

\* A thread that is not in inject_fault_if_activated.
NoFault == [name |-> None, fault_type |-> None, sleep_time |-> -1]

\* No call has been made on the fault injector.
NoCall == [op |-> None, name |-> None, fault_type |-> None, sleep_time |-> -1, result |-> None]

\* sigterm_handler is not running, and a thread is not in api_sigterm; late
\* says that the call was made after shutdown was entered.
NoHandler == [pc |-> "none", late |-> FALSE]

NoApiCall == [pc |-> "idle", late |-> FALSE]

\* No command has been invoked.
InitCtl ==
    /\ pc = "idle"
    /\ cmd = NoCommand
    /\ cluster = NoCluster
    /\ leader = None
    /\ candidate = None
    /\ scheduled_at = NoDatetime
    /\ r = NoResponse
    /\ api_log = <<>>
    /\ dcs_log = <<>>
    /\ members = <<>>
    /\ content = <<>>
    /\ pos = 0
    /\ prompts = <<>>
    /\ err = None
    /\ exc = None
    /\ out = None
    /\ polls = 0
    /\ polled = NoCluster
    /\ remaining = <<>>
    /\ wait_on_members = <<>>
    /\ wpos = 0
    /\ waits = 0
    /\ turn = <<>>
    /\ workers = <<>>
    /\ yielded = <<>>
    /\ listed = <<>>
    /\ sorted = <<>>
    /\ fault_points = <<>>
    /\ fi_threads = [t \in Threads |-> NoFault]
    /\ fi_last = NoCall
    /\ fi_lock = [owner |-> 0, count |-> 0]
    /\ fi_pc = [t \in Threads |-> "idle"]
    /\ received_sighup = FALSE
    /\ received_sigterm = FALSE
    /\ sigterm_lock = "free"
    /\ run_pc = "while"
    /\ handler = NoHandler
    /\ api = [t \in Threads |-> NoApiCall]
    /\ sigterms = 0
    /\ trues = 0
    /\ late_true = FALSE
    /\ hup = "none"
    /\ term_cycles = 0

\* ------------------------------------------------------------ edit-config
\* The number of operators who run edit-config at the same time.
MaxOperators == 2

Operators == 1..MaxOperators

\* The dynamic configuration: two of its keys, each absent (None) or set.
ConfigKeys == {"ttl", "loop_wait"}

ConfigData == [ConfigKeys -> {None, "30"}]

EmptyConfig == [k \in ConfigKeys |-> None]

\* An invocation of edit-config: where it is, the index of the
\* cluster.config it read, the configuration it made of it, what it echoed
\* and what it raised.
NoEditor ==
    [pc |-> "idle", index |-> 0, data |-> EmptyConfig, changed_data |-> EmptyConfig,
     quiet |-> FALSE, out |-> None, err |-> None]

Init ==
    /\ InitCtl
    /\ config = [data |-> {}, index |-> 0]
    /\ editors = [e \in Operators |-> NoEditor]

\* A prompt was shown and the operator answered it.
Asked(log, prompt, answer) == Append(log, [prompt |-> prompt, answer |-> answer])

\* A command that goes on whatever is answered at its confirmation.
aborted_never(confirm) == FALSE

\* if not confirm: raise PatroniCtlException('Aborted ...')
aborted(confirm) == ~confirm

\* raise PatroniCtlException(msg): the command ends.
Raise(msg) ==
    /\ err' = msg
    /\ pc' = "done"

\* ---------------------------------------------------- failover, switchover
FailoverCommand(name, action, l, c, f, s) ==
    [NoCommand EXCEPT !.name = name, !.action = action, !.leader = l, !.candidate = c,
                      !.force = f, !.scheduled = s]

\* The start of _do_failover_or_switchover: the snapshot is read; for a Citus
\* cluster without --group the group is asked for, or refused with --force.
do_failover_or_switchover(c) ==
    /\ pc = "idle"
    /\ cmd' = c
    /\ \E snapshot \in FailoverSnapshots, citus_without_group \in BOOLEAN :
          /\ cluster' = snapshot
          /\ IF citus_without_group
             THEN IF c.force
                  THEN Raise("For Citus clusters the --group must me specified") /\ prompts' = prompts
                  ELSE pc' = "validate" /\ prompts' = Asked(prompts, "Citus group", "1") /\ err' = err
             ELSE pc' = "validate" /\ prompts' = prompts /\ err' = err
    /\ UNCHANGED <<leader, candidate, scheduled_at, r, api_log, dcs_log, exc, out>>
    /\ UNCHANGED <<member_locals, not_ctl>>

\* patronictl failover: with --leader it is a switchover.
failover ==
    /\ pc = "idle"
    /\ \E l \in Names \cup {None}, c \in Names \cup {None}, f \in BOOLEAN :
          do_failover_or_switchover(
              FailoverCommand("failover", IF Truthy(l) THEN "switchover" ELSE "failover", l, c, f, None))

\* patronictl switchover.
switchover ==
    /\ pc = "idle"
    /\ \E l \in Names \cup {None}, c \in Names \cup {None}, f \in BOOLEAN, s \in ScheduledInputs :
          do_failover_or_switchover(FailoverCommand("switchover", "switchover", l, c, f, s))

\* A selection that forgets the nofailover tag.
candidate_names_tagged(c, l) == {m \in c.members : m # l}

\* The members a failover or switchover may promote: not the leader, not
\* tagged nofailover (the code sorts the names, for the prompt only).
candidate_names(c, l) == {m \in c.members : m # l /\ m \notin c.nofailover}

\* The body of the request, and of the DCS record.
failover_value(l, c, at) ==
    [leader |-> l, candidate |-> c,
     scheduled_at |-> IF at = NoDatetime THEN None ELSE isoformat(at)]

\* The prompts the command shows: for the leader, unless it was given, or
\* --force, or a failover; for the candidate and for the schedule (of a
\* switchover), unless given or --force.
ask_leader == cmd.leader = None /\ ~(cmd.force \/ cmd.action = "failover")

ask_candidate == cmd.candidate = None /\ ~cmd.force

ask_scheduled == cmd.action = "switchover" /\ cmd.scheduled = None /\ ~cmd.force

\* The leader of the request: as given, as typed at the prompt, or (with
\* --force, and for a failover) the snapshot's.
resolve_leader(typed) ==
    IF cmd.leader # None THEN cmd.leader
    ELSE IF ask_leader THEN typed ELSE cluster.leader

\* An orchestrator that, given no candidate, picks the only eligible one.
resolve_candidate_single(typed, l) ==
    IF ask_candidate THEN typed
    ELSE IF cmd.candidate = None /\ Cardinality(candidate_names(cluster, l)) = 1
         THEN CHOOSE m \in candidate_names(cluster, l) : TRUE
         ELSE cmd.candidate

\* The candidate of the request: as given, or as typed at the prompt; with
\* --force and no --candidate it stays None.
resolve_candidate(typed, l) == IF ask_candidate THEN typed ELSE cmd.candidate

\* A leader check that trusts --leader and checks only what was typed.
leader_mismatch_typed(l) ==
    cmd.leader = None /\ l # None /\ cluster.leader # None /\ cluster.leader # l

\* The leader named is not the leader of the snapshot.
leader_mismatch(l) == l # None /\ cluster.leader # None /\ cluster.leader # l

\* What the operator types at a prompt, when it is shown.
Typed(asked, answers) == IF asked THEN answers ELSE {None}

\* The checks of _do_failover_or_switchover, from the leader to the schedule,
\* with what the operator types at the prompts that are shown.
validate ==
    /\ pc = "validate"
    /\ \E typed_leader \in Typed(ask_leader, Names),
          typed_candidate \in Typed(ask_candidate, Names \cup {""}),
          typed_scheduled \in Typed(ask_scheduled, ScheduledInputs \ {None}) :
          LET action == cmd.action
              l == resolve_leader(typed_leader)
              c == resolve_candidate(typed_candidate, l)
              s == IF ask_scheduled THEN typed_scheduled ELSE cmd.scheduled
              at == IF action = "switchover" THEN parse_scheduled(s) ELSE NoDatetime
              p1 == IF ask_leader THEN Asked(prompts, "Primary", typed_leader) ELSE prompts
              p2 == IF ask_candidate THEN Asked(p1, "Candidate", typed_candidate) ELSE p1
              p3 == IF ask_scheduled
                    THEN Asked(p2, "When should the switchover take place", typed_scheduled)
                    ELSE p2
          IN  IF action = "switchover" /\ cluster.leader = None
              THEN Raise("This cluster has no leader")
                   /\ UNCHANGED <<leader, candidate, scheduled_at, prompts>>
              ELSE IF leader_mismatch(l)
              THEN Raise("Member is not the leader of cluster")
                   /\ leader' = l /\ prompts' = p1 /\ UNCHANGED <<candidate, scheduled_at>>
              ELSE IF candidate_names(cluster, l) = {}
              THEN Raise("No candidates found")
                   /\ leader' = l /\ prompts' = p1 /\ UNCHANGED <<candidate, scheduled_at>>
              ELSE IF action = "failover" /\ ~Truthy(c)
              THEN Raise("Failover could be performed only to a specific candidate")
                   /\ leader' = l /\ candidate' = c /\ prompts' = p2 /\ UNCHANGED scheduled_at
              ELSE IF c = l
              THEN Raise("target and source are the same")
                   /\ leader' = l /\ candidate' = c /\ prompts' = p2 /\ UNCHANGED scheduled_at
              ELSE IF Truthy(c) /\ c \notin candidate_names(cluster, l)
              THEN Raise("Member does not exist in cluster")
                   /\ leader' = l /\ candidate' = c /\ prompts' = p2 /\ UNCHANGED scheduled_at
              ELSE IF at = ParseError
              THEN Raise("Unable to parse scheduled timestamp")
                   /\ leader' = l /\ candidate' = c /\ prompts' = p3 /\ UNCHANGED scheduled_at
              ELSE IF at # NoDatetime /\ cluster.paused
              THEN Raise("Can't schedule switchover in the paused state")
                   /\ leader' = l /\ candidate' = c /\ scheduled_at' = at /\ prompts' = p3
              ELSE /\ leader' = l
                   /\ candidate' = c
                   /\ scheduled_at' = at
                   /\ prompts' = p3
                   /\ pc' = "confirm"
                   /\ err' = err
    /\ UNCHANGED <<cmd, cluster, r, api_log, dcs_log, exc, out>>
    /\ UNCHANGED <<member_locals, not_ctl>>

\* 'Are you sure you want to ...?', unless --force.
confirm ==
    /\ pc = "confirm"
    /\ IF cmd.force
       THEN pc' = "request" /\ UNCHANGED <<prompts, err>>
       ELSE \E yes \in BOOLEAN :
              /\ prompts' = Asked(prompts, "Are you sure", yes)
              /\ IF aborted(yes)
                 THEN Raise(IF scheduled_at # NoDatetime THEN "Aborting scheduled" ELSE "Aborting")
                 ELSE pc' = "request" /\ err' = err
    /\ UNCHANGED <<cmd, cluster, leader, candidate, scheduled_at, r, api_log, dcs_log, exc, out>>
    /\ UNCHANGED <<member_locals, not_ctl>>

\* A request that always goes to the candidate.
request_member_candidate == candidate

\* The member the request goes to: the leader, or else the candidate.
request_member == IF cluster.leader # None THEN cluster.leader ELSE candidate

\* A request as api_log keeps it.
Request(member, method, endpoint, body) ==
    [member |-> member, method |-> method, endpoint |-> endpoint, body |-> body]

\* request_patroni raised instead of answering.
Raised == [raised |-> TRUE]

\* For failover and switchover api_log keeps the answer with the request.
Answered(req, answer) == req @@ ("answer" :> answer)

\* request_patroni(member, 'post', endpoint, failover_value): the member
\* answers, or the request raises and the except block is entered.
post_failover(endpoint, answered) ==
    LET sent(answer) == Append(api_log,
            Answered(Request(request_member, "post", endpoint,
                             failover_value(leader, candidate, scheduled_at)), answer))
    IN  \/ \E response \in FailoverResponses :
              /\ api_log' = sent(response)
              /\ r' = response
              /\ pc' = answered
              /\ exc' = exc
        \/ /\ api_log' = sent(Raised)
           /\ r' = r
           /\ pc' = "fallback"
           /\ exc' = "request_patroni"

\* POST to the endpoint of the action.
request ==
    /\ pc = "request"
    /\ post_failover(cmd.action, "retry")
    /\ UNCHANGED <<cmd, cluster, leader, candidate, scheduled_at, dcs_log, prompts, err, out>>
    /\ UNCHANGED <<member_locals, not_ctl>>

\* A retry that does not look at the action.
not_supported_any(response, action) == response.status = 501 /\ response.data = NotSupportedText

\* An old member answers 501 to /switchover.
not_supported(response, action) ==
    response.status = 501 /\ action = "switchover" /\ response.data = NotSupportedText

\* ... and is asked again on /failover.
retry ==
    /\ pc = "retry"
    /\ IF not_supported(r, cmd.action)
       THEN post_failover("failover", "interpret")
       ELSE pc' = "interpret" /\ UNCHANGED <<r, api_log, exc>>
    /\ UNCHANGED <<cmd, cluster, leader, candidate, scheduled_at, dcs_log, prompts, err, out>>
    /\ UNCHANGED <<member_locals, not_ctl>>

\* A command that takes only 200 for an acceptance.
accepted_only_200(response) == response.status = 200

accepted(response) == response.status \in {200, 202}

\* An orchestrator that takes every answer it cannot use to the DCS.
after_refusal_fallback == "fallback"

\* Where the command goes after echoing '... failed, details: ...': it returns.
after_refusal == "done"

\* An accepted request: the cluster is read again (which may raise) and the
\* answer echoed; the snapshot read here is only displayed. Any other answer
\* is echoed as a failure and the command returns.
interpret ==
    /\ pc = "interpret"
    /\ IF accepted(r)
       THEN \/ pc' = "done" /\ out' = "answer" /\ exc' = exc
            \/ pc' = "fallback" /\ out' = out /\ exc' = "get_cluster"
       ELSE pc' = after_refusal /\ out' = "failed" /\ exc' = exc
    /\ UNCHANGED <<cmd, cluster, leader, candidate, scheduled_at, r, api_log, dcs_log, prompts, err>>
    /\ UNCHANGED <<member_locals, not_ctl>>

\* dcs.manual_failover(leader, candidate, scheduled_at=..., index=...) as the
\* DCS receives the call; index is None when the call leaves it out.
manual_failover(l, c, at, index) ==
    [op |-> "manual_failover", leader |-> l, candidate |-> c, scheduled_at |-> at, index |-> index]

\* A fallback that mixes up its arguments.
fallback_call_swapped == manual_failover(candidate, leader, scheduled_at, None)

\* dcs.manual_failover(leader, candidate, scheduled_at=scheduled_at)
fallback_call == manual_failover(leader, candidate, scheduled_at, None)

\* except Exception: the warning 'Failing over to DCS', and the call.
fallback ==
    /\ pc = "fallback"
    /\ dcs_log' = Append(dcs_log, fallback_call)
    /\ out' = "falling back to DCS"
    /\ pc' = "done"
    /\ UNCHANGED <<cmd, cluster, leader, candidate, scheduled_at, r, api_log, prompts, err, exc>>
    /\ UNCHANGED <<member_locals, not_ctl>>

NextFailover ==
    \/ failover
    \/ switchover
    \/ validate
    \/ confirm
    \/ request
    \/ retry
    \/ interpret
    \/ fallback

SpecFailover == Init /\ [][NextFailover]_vars

\* ------------------------------------------------ the commands on members
\* The members of S in the order of cluster.members.
InOrder(S) == SelectSeq(NameSeq, LAMBDA n : n \in S)

Range(q) == {q[k] : k \in DOMAIN q}

\* A resolver for which the leader is a replica of itself.
get_all_members_everyone(c, role) ==
    IF role \in {"leader", "master", "primary", "standby-leader"}
    THEN IF c.leader # None THEN <<c.leader>> ELSE <<>>
    ELSE InOrder(c.members)

\* get_all_members, for one group: the leader for the roles of a leader, as
\* its own role allows; every member for 'any'; every member but the leader
\* for 'replica' and 'standby'.
get_all_members(c, role) ==
    IF role \in {"leader", "master", "primary", "standby-leader"}
    THEN LET rl == CASE role = "primary" -> "master"
                     [] role = "standby-leader" -> "standby_leader"
                     [] OTHER -> role
         IN  IF /\ c.leader # None
                /\ \/ rl = "leader"
                   \/ c.leader_role # "master" /\ rl = "standby_leader"
                   \/ c.leader_role # "standby_leader" /\ rl = "master"
             THEN <<c.leader>>
             ELSE <<>>
    ELSE InOrder({m \in c.members : role = "any" \/ (role \in {"replica", "standby"} /\ m # c.leader)})

\* Members in the order of the snapshot, whatever the leader.
get_all_members_in_order(c) == InOrder({m \in c.members : m \in c.api_url})

\* get_all_members_leader_first: the leader, when it has an api_url, then
\* the other members that have one.
get_all_members_leader_first(c) ==
    LET leader_name == IF c.leader # None /\ c.leader \in c.api_url THEN c.leader ELSE None
    IN  (IF leader_name # None THEN <<c.leader>> ELSE <<>>)
            \o InOrder({m \in c.members : m \in c.api_url /\ m # leader_name})

\* The action get_members is told, for each command.
member_action(name) == IF name = "reinit" THEN "reinitialize" ELSE name

\* restart confirms later, with the schedule.
ask_confirmation(name) == name # "restart"

\* The member is asked for when none is named and none is taken by default,
\* unless --force.
ask_member == cmd.member_names = {} /\ member_action(cmd.name) = "reinitialize" /\ ~cmd.force

\* A resolution that raises as soon as one of the names is not a candidate.
resolve_member_names_strict(candidates, typed) ==
    IF cmd.member_names # {} THEN cmd.member_names
    ELSE IF member_action(cmd.name) # "reinitialize" THEN candidates
    ELSE IF ~cmd.force THEN {typed} ELSE {}

\* A resolution that takes all the candidates by default for every action.
resolve_member_names_all(candidates, typed) ==
    IF cmd.member_names # {} THEN cmd.member_names \cap candidates
    ELSE IF ~cmd.force /\ member_action(cmd.name) = "reinitialize" THEN {typed} ELSE candidates

\* member_names of get_members: the names given that are candidates; with no
\* name given all the candidates, or for reinitialize what the operator types.
resolve_member_names(candidates, typed) ==
    IF cmd.member_names # {} THEN cmd.member_names \cap candidates
    ELSE IF member_action(cmd.name) # "reinitialize" THEN candidates
    ELSE IF ~cmd.force THEN {typed} ELSE {}

\* Where a command goes on after get_members.
after_get_members(name) == IF name = "restart" THEN "restart_prepare" ELSE name

\* get_members, with confirm_members_action for the commands that confirm here.
get_members ==
    /\ pc = "get_members"
    /\ LET all == get_all_members(cluster, cmd.role)
           candidates == Range(all)
       IN  IF (~cmd.force \/ Truthy(cmd.role)) /\ cmd.member_names = {} /\ candidates = {}
           THEN Raise("cluster doesn't have any members") /\ UNCHANGED <<members, prompts>>
           ELSE IF cmd.member_names # {} /\ cmd.member_names \cap candidates = {}
           THEN Raise("No role among provided members") /\ UNCHANGED <<members, prompts>>
           ELSE \E typed \in Typed(ask_member, Names \cup {""}), yes \in BOOLEAN :
                  LET member_names == resolve_member_names(candidates, typed)
                      p1 == IF ask_member THEN Asked(prompts, "Which member", typed) ELSE prompts
                      ask_sure == ask_confirmation(cmd.name) /\ ~cmd.force
                      p2 == IF ask_sure THEN Asked(p1, "Are you sure", yes) ELSE p1
                  IN  IF \E n \in member_names : n \notin candidates
                      THEN Raise("is not a member of cluster") /\ prompts' = p1 /\ UNCHANGED members
                      ELSE /\ members' = SelectSeq(all, LAMBDA n : n \in member_names)
                           /\ prompts' = p2
                           /\ IF ask_sure /\ aborted(yes)
                              THEN Raise("Aborted")
                              ELSE pc' = after_get_members(cmd.name) /\ err' = err
    /\ UNCHANGED <<cmd, cluster, r, api_log, dcs_log, content, pos, scheduled_at, exc, out>>
    /\ UNCHANGED <<failover_locals, not_ctl>>

\* The roles given with --role.
CommandRoles == {"any", "leader", "replica"}

\* An exception of request_patroni that no one catches ends the command.
Uncaught ==
    /\ exc' = "request_patroni"
    /\ out' = "Traceback"
    /\ pc' = "done"

\* ------------------------------------------------------------------ reload
ReloadSnapshots ==
    {c \in {[NoCluster EXCEPT !.members = ms, !.leader = l, !.api_url = ms] :
                ms \in MemberSets, l \in Names \cup {None}} :
        IsSnapshot(c)}

\* patronictl reload
reload ==
    /\ pc = "idle"
    /\ \E names \in SUBSET Names, role \in CommandRoles, f \in BOOLEAN :
          cmd' = [NoCommand EXCEPT !.name = "reload", !.member_names = names, !.role = role, !.force = f]
    /\ cluster' \in ReloadSnapshots
    /\ pc' = "get_members"
    /\ UNCHANGED <<r, api_log, dcs_log, prompts, scheduled_at, err, exc, out>>
    /\ UNCHANGED <<member_locals, failover_locals, not_ctl>>

ReloadResponses == {Response(st, "") : st \in {200, 202, 500}}

\* What reload echoes for an answer.
reload_echo(response) ==
    CASE response.status = 200 -> "No changes to apply"
      [] response.status = 202 -> "Reload request received"
      [] OTHER -> "Failed: reload"

\* One turn of the loop of reload: POST /reload to the next member.
reload_member ==
    /\ pc = "reload"
    /\ IF pos < Len(members)
       THEN \E answer \in ReloadResponses \cup {Raised} :
              /\ api_log' = Append(api_log, Request(members[pos + 1], "post", "reload", <<>>))
              /\ IF answer = Raised
                 THEN Uncaught /\ UNCHANGED <<r, pos>>
                 ELSE /\ r' = answer
                      /\ out' = reload_echo(answer)
                      /\ pos' = pos + 1
                      /\ UNCHANGED <<pc, exc>>
       ELSE pc' = "done" /\ UNCHANGED <<api_log, r, out, pos, exc>>
    /\ UNCHANGED <<cmd, cluster, dcs_log, members, content, prompts, scheduled_at, err>>
    /\ UNCHANGED <<failover_locals, not_ctl>>

\* ----------------------------------------------------------------- restart
RestartSnapshots ==
    {c \in {[NoCluster EXCEPT !.members = ms, !.leader = l, !.api_url = ms, !.paused = p,
                              !.scheduled_restart = sr] :
                ms \in MemberSets, l \in Names \cup {None}, p \in BOOLEAN, sr \in SUBSET Names} :
        IsSnapshot(c)}

\* --pg-version, --pending and --timeout as they are given together.
RestartOptions ==
    {[version |-> None, pending |-> FALSE, timeout |-> None],
     [version |-> "9.5.2", pending |-> TRUE, timeout |-> "30"],
     [version |-> "9.x", pending |-> FALSE, timeout |-> None]}

\* patronictl restart; --any, --pg-version, --pending and --timeout are drawn
\* where restart reads them, in restart_prepare.
restart ==
    /\ pc = "idle"
    /\ \E names \in SUBSET Names, role \in CommandRoles, f \in BOOLEAN, s \in ScheduledInputs :
          cmd' = [NoCommand EXCEPT !.name = "restart", !.member_names = names, !.role = role,
                                   !.force = f, !.scheduled = s]
    /\ cluster' \in RestartSnapshots
    /\ pc' = "get_members"
    /\ UNCHANGED <<r, api_log, dcs_log, prompts, scheduled_at, err, exc, out>>
    /\ UNCHANGED <<member_locals, failover_locals, not_ctl>>

\* postgres_version_to_int accepts the version.
ValidVersion(v) == v = "9.5.2"

\* The body of POST /restart.
restart_content(pending, version, at, timeout) ==
    (IF pending THEN "restart_pending" :> TRUE ELSE <<>>)
    @@ (IF Truthy(version) THEN "postgres_version" :> version ELSE <<>>)
    @@ (IF at # NoDatetime THEN "schedule" :> isoformat(at) ELSE <<>>)
    @@ (IF timeout # None THEN "timeout" :> timeout ELSE <<>>)

\* A restart that may be scheduled whatever the state of the cluster.
restart_schedule_refused_never(at) == FALSE

\* 'Can't schedule restart in the paused state'
restart_schedule_refused(at) == at # NoDatetime /\ cluster.paused

\* restart, from the schedule to the body of the request: the prompts for
\* the schedule and the version, the confirmation, --any, the checks.
restart_prepare ==
    /\ pc = "restart_prepare"
    /\ \E p_any \in BOOLEAN, o \in RestartOptions :
        LET ask_when == cmd.scheduled = None /\ ~cmd.force
            ask_version == o.version = None /\ ~cmd.force
        IN  \E typed_scheduled \in Typed(ask_when, ScheduledInputs \ {None}), yes \in BOOLEAN,
               typed_version \in Typed(ask_version, {"", "9.5.2", "9.x"}),
               chosen \in IF p_any THEN Range(members) ELSE {None} :
               LET s == IF ask_when THEN typed_scheduled ELSE cmd.scheduled
                   at == parse_scheduled(s)
                   version == IF ask_version THEN typed_version ELSE o.version
                   p1 == IF ask_when
                         THEN Asked(prompts, "When should the restart take place", typed_scheduled)
                         ELSE prompts
                   p2 == IF ~cmd.force THEN Asked(p1, "Are you sure", yes) ELSE p1
                   p3 == IF ask_version
                         THEN Asked(p2, "Restart if the PostgreSQL version is less", typed_version)
                         ELSE p2
                   targets == IF p_any THEN <<chosen>> ELSE members
               IN  IF at = ParseError
                   THEN Raise("Unable to parse scheduled timestamp")
                        /\ prompts' = p1 /\ UNCHANGED <<cmd, members, content, scheduled_at>>
                   ELSE IF ~cmd.force /\ aborted(yes)
                   THEN Raise(IF at # NoDatetime THEN "Aborted scheduled" ELSE "Aborted")
                        /\ prompts' = p2 /\ scheduled_at' = at /\ UNCHANGED <<cmd, members, content>>
                   ELSE IF Truthy(version) /\ ~ValidVersion(version)
                   THEN Raise("Invalid PostgreSQL version format")
                        /\ prompts' = p3 /\ scheduled_at' = at /\ members' = targets
                        /\ cmd' = [cmd EXCEPT !.p_any = p_any] /\ UNCHANGED content
                   ELSE IF restart_schedule_refused(at)
                   THEN Raise("Can't schedule restart in the paused state")
                        /\ prompts' = p3 /\ scheduled_at' = at /\ members' = targets
                        /\ cmd' = [cmd EXCEPT !.p_any = p_any] /\ UNCHANGED content
                   ELSE /\ prompts' = p3
                        /\ scheduled_at' = at
                        /\ members' = targets
                        /\ cmd' = [cmd EXCEPT !.p_any = p_any]
                        /\ content' = restart_content(o.pending, version, at, o.timeout)
                        /\ pc' = "restart"
                        /\ err' = err
    /\ UNCHANGED <<cluster, r, api_log, dcs_log, pos, exc, out>>
    /\ UNCHANGED <<failover_locals, not_ctl>>

RestartResponses == {Response(st, "") : st \in {200, 202, 409, 503}}

DeleteRestartResponses == {Response(st, "") : st \in {200, 404}}

\* What restart echoes for an answer.
restart_echo(response) ==
    CASE response.status = 200 -> "Success: restart"
      [] response.status = 202 -> "Success: restart scheduled"
      [] response.status = 409 -> "Failed: another restart is already scheduled"
      [] OTHER -> "Failed: restart"

\* A restart that flushes the member's schedule whether forced or not.
flush_first_unforced(m) == "schedule" \in DOMAIN content /\ m \in cluster.scheduled_restart

\* With --force a scheduled restart of the member is flushed before a new
\* one is scheduled.
flush_first(m) == "schedule" \in DOMAIN content /\ cmd.force /\ m \in cluster.scheduled_restart

\* One turn of the loop of restart: DELETE /restart where flush_first, then
\* POST /restart.
restart_member ==
    /\ pc = "restart"
    /\ IF pos < Len(members)
       THEN LET m == members[pos + 1]
            IN  \E deleted \in IF flush_first(m) THEN DeleteRestartResponses \cup {Raised} ELSE {NoResponse},
                   answer \in RestartResponses \cup {Raised} :
                   LET flushed == IF flush_first(m)
                                  THEN Append(api_log, Request(m, "delete", "restart", <<>>))
                                  ELSE api_log
                   IN  IF deleted = Raised
                       THEN api_log' = flushed /\ Uncaught /\ UNCHANGED <<r, pos>>
                       ELSE /\ api_log' = Append(flushed, Request(m, "post", "restart", content))
                            /\ IF answer = Raised
                               THEN Uncaught /\ UNCHANGED <<r, pos>>
                               ELSE /\ r' = answer
                                    /\ out' = restart_echo(answer)
                                    /\ pos' = pos + 1
                                    /\ UNCHANGED <<pc, exc>>
       ELSE pc' = "done" /\ UNCHANGED <<api_log, r, out, pos, exc>>
    /\ UNCHANGED <<cmd, cluster, dcs_log, members, content, prompts, scheduled_at, err>>
    /\ UNCHANGED <<failover_locals, not_ctl>>

\* ------------------------------------------------------------------ reinit
\* The times the operator may cancel a reinitialize in progress, and the
\* answers 'creating replica' the wait may get, in one invocation.
MaxRetries == 1

MaxWaits == 2

\* A reinit that resolves its members with the role 'any'.
reinit_role_any == "any"

\* The role reinit gives to get_members.
reinit_role == "replica"

\* patronictl reinit: the members are the replicas named.
reinit ==
    /\ pc = "idle"
    /\ \E names \in SUBSET Names, f \in BOOLEAN, w \in BOOLEAN :
          cmd' = [NoCommand EXCEPT !.name = "reinit", !.member_names = names, !.role = reinit_role,
                                   !.force = f, !.wait = w]
    /\ cluster' \in ReloadSnapshots
    /\ pc' = "get_members"
    /\ UNCHANGED <<r, api_log, dcs_log, prompts, scheduled_at, err, exc, out>>
    /\ UNCHANGED <<member_locals, failover_locals, not_ctl>>

InProgressText == "reinitialize already in progress"

ReinitResponses == {Response(200, "reinitialize started"), Response(503, InProgressText), Response(503, "")}

\* check_response: the request is a success unless its status is 400 or more.
check_response(response) == response.status < 400

\* The operator said yes to 'Do you want to cancel it and reinitialize anyway?'
Retries ==
    Cardinality({k \in DOMAIN prompts : prompts[k].prompt = "Do you want to cancel it" /\ prompts[k].answer})

\* A retry that repeats the request as it was.
reinit_body_unforced == "force" :> cmd.force

\* body of the requests for a member: {'force': force}, and force True after
\* the operator cancelled the reinitialize in progress.
reinit_body == IF content = <<>> THEN "force" :> cmd.force ELSE content

\* A wait that ends after one turn of polls.
wait_over_at_once(waited) == TRUE

\* while wait_on_members: the wait is over when no member is waited on.
wait_over(waited) == waited = <<>>

\* One request of the loop of reinit: POST /reinitialize to the member; when
\* it is refused as already in progress the operator is asked, unless
\* --force, and on yes the request is repeated with force.
reinit_member ==
    /\ pc = "reinit"
    /\ IF pos < Len(members)
       THEN LET m == members[pos + 1]
            IN  \E answer \in ReinitResponses \cup {Raised}, yes \in BOOLEAN :
                  /\ (answer = Response(503, InProgressText) /\ ~cmd.force) => Retries < MaxRetries
                  /\ api_log' = Append(api_log, Request(m, "post", "reinitialize", reinit_body))
                  /\ IF answer = Raised
                     THEN Uncaught /\ UNCHANGED <<r, pos, content, prompts, wait_on_members>>
                     ELSE LET started == check_response(answer)
                              asked == ~started /\ answer.data = InProgressText /\ ~cmd.force
                          IN  /\ r' = answer
                              /\ out' = IF started THEN "Success: reinitialize" ELSE "Failed: reinitialize"
                              /\ prompts' = IF asked THEN Asked(prompts, "Do you want to cancel it", yes)
                                            ELSE prompts
                              /\ IF asked /\ yes
                                 THEN content' = "force" :> TRUE /\ UNCHANGED <<pos, wait_on_members>>
                                 ELSE /\ content' = <<>>
                                      /\ pos' = pos + 1
                                      /\ wait_on_members' = IF started /\ cmd.wait
                                                            THEN Append(wait_on_members, m)
                                                            ELSE wait_on_members
                              /\ UNCHANGED <<pc, exc>>
            /\ UNCHANGED <<wpos, waits, turn>>
       ELSE /\ pc' = IF wait_over(wait_on_members) THEN "done" ELSE "reinit_wait"
            /\ UNCHANGED <<api_log, r, out, pos, exc, content, prompts, reinit_locals>>
    /\ UNCHANGED <<cmd, cluster, dcs_log, members, scheduled_at, err>>
    /\ UNCHANGED <<failover_locals, config, editors, wait_locals, aside>>

\* GET /patroni: the state of the member.
PatroniResponses == {Response(200, "creating replica"), Response(200, "running")}

\* list.remove(member)
Remove(q, m) == SelectSeq(q, LAMBDA x : x # m)

\* One turn of the for loop in the wait of reinit: GET /patroni of the
\* member at the index; a member that is no longer creating its replica is
\* removed from the list the loop runs over, and the index moves on.  At the
\* end of the list the while loop starts over, until the list is empty.
reinit_wait ==
    /\ pc = "reinit_wait"
    /\ IF wpos < Len(wait_on_members)
       THEN LET m == wait_on_members[wpos + 1]
            IN  \E answer \in PatroniResponses \cup {Raised} :
                  /\ answer = Response(200, "creating replica") => waits < MaxWaits
                  /\ api_log' = Append(api_log, Request(m, "get", "patroni", <<>>))
                  /\ IF answer = Raised
                     THEN Uncaught /\ UNCHANGED <<wait_on_members, wpos, waits, turn>>
                     ELSE /\ wpos' = wpos + 1
                          /\ turn' = Append(turn, m)
                          /\ IF answer.data = "creating replica"
                             THEN waits' = waits + 1 /\ UNCHANGED <<wait_on_members, out>>
                             ELSE /\ wait_on_members' = Remove(wait_on_members, m)
                                  /\ out' = "Reinitialize is completed"
                                  /\ UNCHANGED waits
                          /\ UNCHANGED <<pc, exc>>
       ELSE /\ IF wait_over(wait_on_members)
               THEN pc' = "done" /\ UNCHANGED <<wpos, turn>>
               ELSE wpos' = 0 /\ turn' = <<>> /\ UNCHANGED pc
            /\ UNCHANGED <<api_log, out, exc, wait_on_members, waits>>
    /\ UNCHANGED <<cmd, cluster, r, dcs_log, members, content, pos, prompts, scheduled_at, err>>
    /\ UNCHANGED <<failover_locals, config, editors, wait_locals, aside>>

\* ------------------------------------------------------------------- flush
\* cluster.failover: no key, a key without a schedule, or a scheduled
\* switchover, with the index of the key.
FailoverKeys ==
    {NoFailoverKey}
        \cup {[scheduled_at |-> at, index |-> ix] :
                at \in {NoDatetime, parse_scheduled("2030-01-01T12:00+00:00")}, ix \in {3, 4}}

\* The snapshots flush may read, for each target.
FlushSnapshots(target) ==
    IF target = "restart"
    THEN {c \in {[NoCluster EXCEPT !.members = ms, !.leader = l, !.api_url = ms,
                                   !.scheduled_restart = sr] :
                    ms \in MemberSets, l \in Names \cup {None}, sr \in SUBSET Names} :
            IsSnapshot(c)}
    ELSE {c \in {[NoCluster EXCEPT !.members = ms, !.leader = l, !.api_url = au, !.failover = fo] :
                    ms \in MemberSets, l \in Names \cup {None}, au \in SUBSET Names,
                    fo \in FailoverKeys} :
            IsSnapshot(c)}

\* A test that takes every failover key for a scheduled switchover.
no_pending_switchover_key(c) == c.failover = NoFailoverKey

\* not failover or not failover.scheduled_at
no_pending_switchover(c) == c.failover = NoFailoverKey \/ c.failover.scheduled_at = NoDatetime

\* patronictl flush <cluster> [member_names] restart|switchover.  The target
\* restart goes through get_members; the target switchover reads neither the
\* member names nor the role nor --force.
flush ==
    /\ pc = "idle"
    /\ \E target \in {"restart", "switchover"} :
        \E names \in IF target = "restart" THEN SUBSET Names ELSE {{}},
           role \in IF target = "restart" THEN CommandRoles ELSE {"any"},
           f \in BOOLEAN, c \in FlushSnapshots(target) :
            /\ cmd' = [NoCommand EXCEPT !.name = "flush", !.target = target, !.member_names = names,
                                        !.role = role, !.force = f]
            /\ cluster' = c
            /\ IF target = "restart"
               THEN pc' = "get_members" /\ UNCHANGED <<members, out>>
               ELSE IF no_pending_switchover(c)
               THEN pc' = "done" /\ out' = "No pending scheduled switchover" /\ UNCHANGED members
               ELSE /\ pc' = "flush_switchover"
                    /\ members' = get_all_members_leader_first(c)
                    /\ UNCHANGED out
    /\ UNCHANGED <<r, api_log, dcs_log, content, pos, prompts, scheduled_at, err, exc>>
    /\ UNCHANGED <<failover_locals, not_ctl>>

\* What flush echoes for a member with a scheduled restart.
flush_echo(response) ==
    IF check_response(response)
    THEN "Success: flush scheduled restart"
    ELSE "Failed: flush scheduled restart"

\* One turn of the loop of flush restart: DELETE /restart to a member that
\* has a scheduled restart.
flush_member ==
    /\ pc = "flush"
    /\ IF pos < Len(members)
       THEN LET m == members[pos + 1]
            IN  IF m \in cluster.scheduled_restart
                THEN \E answer \in DeleteRestartResponses \cup {Raised} :
                       /\ api_log' = Append(api_log, Request(m, "delete", "restart", <<>>))
                       /\ IF answer = Raised
                          THEN Uncaught /\ UNCHANGED <<r, pos>>
                          ELSE /\ r' = answer
                               /\ out' = flush_echo(answer)
                               /\ pos' = pos + 1
                               /\ UNCHANGED <<pc, exc>>
                ELSE /\ out' = "No scheduled restart for member"
                     /\ pos' = pos + 1
                     /\ UNCHANGED <<api_log, r, pc, exc>>
       ELSE pc' = "done" /\ UNCHANGED <<api_log, r, out, pos, exc>>
    /\ UNCHANGED <<cmd, cluster, dcs_log, members, content, prompts, scheduled_at, err>>
    /\ UNCHANGED <<failover_locals, not_ctl>>

DeleteSwitchoverResponses ==
    {Response(200, "scheduled switchover deleted"), Response(404, "no switchover is scheduled"),
     Response(503, "")}

\* The name r is read before anything was assigned to it.
UnboundLocalError ==
    /\ exc' = "UnboundLocalError"
    /\ out' = "Traceback"
    /\ pc' = "done"

\* A flush that records no index with its write.
flush_call_unindexed == manual_failover("", "", NoDatetime, None)

\* dcs.manual_failover('', '', index=failover.index)
flush_call == manual_failover("", "", NoDatetime, cluster.failover.index)

\* One turn of the loop of flush switchover: DELETE /switchover to the next
\* member; 200 and 404 end the command, every other answer is echoed as a
\* failure; after a request that raised the same echo reads r, the last
\* answer, which is unbound when no member has answered.  After the last
\* member the schedule is removed in the DCS.
flush_switchover_member ==
    /\ pc = "flush_switchover"
    /\ IF pos < Len(members)
       THEN \E answer \in DeleteSwitchoverResponses \cup {Raised} :
              /\ api_log' = Append(api_log,
                    Answered(Request(members[pos + 1], "delete", "switchover", <<>>), answer))
              /\ IF answer = Raised
                 THEN IF r = NoResponse
                      THEN UnboundLocalError /\ UNCHANGED <<r, pos>>
                      ELSE /\ out' = "Failed: member status_code"
                           /\ pos' = pos + 1
                           /\ UNCHANGED <<r, pc, exc>>
                 ELSE /\ r' = answer
                      /\ IF answer.status \in {200, 404}
                         THEN /\ out' = IF answer.status = 200 THEN "Success: " \o answer.data
                                        ELSE "Failed: " \o answer.data
                              /\ pc' = "done"
                              /\ UNCHANGED pos
                         ELSE /\ out' = "Failed: member status_code"
                              /\ pos' = pos + 1
                              /\ UNCHANGED pc
                      /\ UNCHANGED exc
              /\ UNCHANGED dcs_log
       ELSE /\ out' = "Could not find any accessible member"
            /\ dcs_log' = Append(dcs_log, flush_call)
            /\ pc' = "done"
            /\ UNCHANGED <<api_log, r, pos, exc>>
    /\ UNCHANGED <<cmd, cluster, members, content, prompts, scheduled_at, err>>
    /\ UNCHANGED <<failover_locals, not_ctl>>

NextMembers ==
    \/ reload
    \/ restart
    \/ reinit
    \/ get_members
    \/ reload_member
    \/ restart_prepare
    \/ restart_member
    \/ reinit_member
    \/ reinit_wait
    \/ flush
    \/ flush_member
    \/ flush_switchover_member

SpecMembers == Init /\ [][NextMembers]_vars

\* One invocation of reinit. The loop of the wait is sequential code that
\* sleeps two seconds and polls again: it always takes its next step.
NextReinit ==
    \/ reinit
    \/ get_members
    \/ reinit_member
    \/ reinit_wait

SpecReinit == Init /\ [][NextReinit]_vars /\ WF_vars(reinit_wait)

\* ------------------------------------------------------------ pause, resume
\* The turns of the polling loop within the wait budget.
MaxPolls == 2

\* The snapshots pause and resume may read.
PauseSnapshots ==
    {c \in {[NoCluster EXCEPT !.members = ms, !.leader = l, !.api_url = au, !.paused = p,
                              !.index = [m \in ms |-> 1]] :
                ms \in MemberSets, l \in Names \cup {None}, au \in SUBSET Names, p \in BOOLEAN} :
        IsSnapshot(c)}

\* paused of toggle_pause: True for pause, False for resume.
paused == cmd.name = "pause"

\* toggle_pause up to its loop: the snapshot is read and the state of the
\* cluster is checked.
toggle_pause ==
    /\ pc = "idle"
    /\ \E name \in {"pause", "resume"}, w \in BOOLEAN, c \in PauseSnapshots :
          /\ cmd' = [NoCommand EXCEPT !.name = name, !.wait = w]
          /\ cluster' = c
          /\ IF c.paused = (name = "pause")
             THEN Raise(IF name = "pause" THEN "Cluster is already paused" ELSE "Cluster is not paused")
                  /\ UNCHANGED members
             ELSE members' = get_all_members_leader_first(c) /\ pc' = "patch" /\ err' = err
    /\ UNCHANGED <<scheduled_at, r, api_log, dcs_log, content, pos, prompts, exc, out>>
    /\ UNCHANGED <<failover_locals, not_ctl>>

PatchResponses == {Response(st, "") : st \in {200, 409, 503}}

\* 'Success: cluster management is paused', or resumed.
pause_success == IF paused THEN "Success: cluster management is paused" ELSE "Success: cluster management is resumed"

\* One turn of the loop of toggle_pause: PATCH /config to the next member; a
\* request that raises takes the loop to the next member, an answer ends it.
patch_member ==
    /\ pc = "patch"
    /\ IF pos < Len(members)
       THEN \E answer \in PatchResponses \cup {Raised} :
              /\ api_log' = Append(api_log,
                    Answered(Request(members[pos + 1], "patch", "config",
                                     "pause" :> (IF paused THEN "true" ELSE None)), answer))
              /\ IF answer = Raised
                 THEN pos' = pos + 1 /\ UNCHANGED <<pc, r, out>>
                 ELSE /\ r' = answer
                      /\ pos' = pos
                      /\ IF answer.status = 200
                         THEN IF cmd.wait
                              THEN /\ pc' = "wait"
                                   /\ out' = "request sent, waiting until it is recognized by all nodes"
                              ELSE pc' = "done" /\ out' = pause_success
                         ELSE pc' = "done" /\ out' = "Failed: cluster management"
              /\ err' = err
       ELSE Raise("Can not find accessible cluster member") /\ UNCHANGED <<api_log, r, pos, out>>
    /\ UNCHANGED <<cmd, cluster, scheduled_at, dcs_log, members, content, prompts, exc>>
    /\ UNCHANGED <<failover_locals, not_ctl>>

\* old of wait_until_pause_is_applied: the index of every member of the old
\* cluster that has an api_url.
old == [m \in cluster.api_url |-> cluster.index[m]]

\* What dcs.get_cluster() may return in the loop: some members, the pause
\* flag of each, and each member's index, the old one or a new one.  The
\* loop reads the flag and the index only of the members that are in old;
\* the others are given no flag and the index 1.
PolledSnapshot(ms, ps, changed) ==
    [NoCluster EXCEPT !.members = ms, !.pause = ps, !.index = [m \in ms |-> IF m \in changed THEN 2 ELSE 1]]

\* all(m.data.get('pause', False) == paused for m in cluster.members if m.name in old)
recognized(c) == \A m \in c.members : m \in DOMAIN old => ((m \in c.pause) = paused)

\* A report that names every member without the flag.
lagging_all(c) == InOrder({m \in c.members : (m \in c.pause) # paused /\ m \in DOMAIN old})

\* remaining of wait_until_pause_is_applied.
lagging(c) ==
    InOrder({m \in c.members : /\ (m \in c.pause) # paused
                               /\ m \in DOMAIN old
                               /\ old[m] # c.index[m]})

\* One turn of the polling loop of wait_until_pause_is_applied, or its else
\* branch when the budget is spent.
wait_until_pause_is_applied ==
    /\ pc = "wait"
    /\ IF polls < MaxPolls
       THEN \E ms \in MemberSets :
              \E ps \in SUBSET (ms \cap DOMAIN old), changed \in SUBSET (ms \cap DOMAIN old) :
                 LET c == PolledSnapshot(ms, ps, changed)
                 IN  /\ polled' = c
                     /\ polls' = polls + 1
                     /\ IF recognized(c)
                        THEN pc' = "done" /\ out' = pause_success
                        ELSE UNCHANGED <<pc, out>>
                     /\ UNCHANGED remaining
       ELSE /\ remaining' = lagging(polled)
            /\ out' = IF lagging(polled) # <<>>
                      THEN "members didn't recognized pause state"
                      ELSE pause_success
            /\ pc' = "done"
            /\ UNCHANGED <<polls, polled>>
    /\ UNCHANGED <<cmd, cluster, scheduled_at, r, api_log, dcs_log, members, content, pos, prompts,
                   err, exc>>
    /\ UNCHANGED <<failover_locals, config, editors, reinit_locals, aside>>

NextPause ==
    \/ toggle_pause
    \/ patch_member
    \/ wait_until_pause_is_applied

SpecPause == Init /\ [][NextPause]_vars

\* ------------------------------------------------------------------ remove
\* The names a cluster is given on the command line, and what an operator
\* types when asked for one.
ClusterNames == {"batman", "robin"}

TypedClusterNames == ClusterNames \cup {"Batman", ""}

\* message
AwareMessage == "Yes I am aware"

TypedMessages == {AwareMessage, "yes i am aware", "Yes", ""}

RemoveSnapshots ==
    {c \in {[NoCluster EXCEPT !.members = ms, !.leader = l, !.api_url = ms] :
                ms \in MemberSets, l \in Names \cup {None}} :
        IsSnapshot(c)}

\* An answer that is taken whatever was typed.
mismatch_never(typed, expected) == FALSE

\* confirm != cluster_name, message != confirm, confirm != cluster.leader.name
mismatch(typed, expected) == typed # expected

\* dcs.delete_cluster()
delete_cluster == [op |-> "delete_cluster"]

\* patronictl remove: the snapshot is read; a Citus cluster needs its group.
remove ==
    /\ pc = "idle"
    /\ \E cluster_name \in ClusterNames, c \in RemoveSnapshots, citus_without_group \in BOOLEAN :
          /\ cmd' = [NoCommand EXCEPT !.name = "remove", !.cluster_name = cluster_name]
          /\ cluster' = c
          /\ IF citus_without_group
             THEN Raise("For Citus clusters the --group must me specified")
             ELSE pc' = "remove_name" /\ err' = err
    /\ UNCHANGED <<scheduled_at, r, api_log, dcs_log, prompts, exc, out>>
    /\ UNCHANGED <<member_locals, failover_locals, not_ctl>>

\* 'Please confirm the cluster name to remove'
remove_name ==
    /\ pc = "remove_name"
    /\ \E typed \in TypedClusterNames :
          /\ prompts' = Asked(prompts, "Please confirm the cluster name to remove", typed)
          /\ IF mismatch(typed, cmd.cluster_name)
             THEN Raise("Cluster names specified do not match")
             ELSE pc' = "remove_message" /\ err' = err
    /\ UNCHANGED <<cmd, cluster, scheduled_at, r, api_log, dcs_log, exc, out>>
    /\ UNCHANGED <<member_locals, failover_locals, not_ctl>>

\* if cluster.leader and cluster.leader.name
leader_named(c) == c.leader # None

\* 'You are about to remove all information in DCS for ..., please type:
\* "Yes I am aware"'; a cluster without a leader is deleted right after it.
remove_message ==
    /\ pc = "remove_message"
    /\ \E typed \in TypedMessages :
          /\ prompts' = Asked(prompts, "You are about to remove all information in DCS", typed)
          /\ IF mismatch(typed, AwareMessage)
             THEN Raise("You did not exactly type") /\ UNCHANGED dcs_log
             ELSE IF leader_named(cluster)
             THEN pc' = "remove_leader" /\ err' = err /\ UNCHANGED dcs_log
             ELSE /\ dcs_log' = Append(dcs_log, delete_cluster)
                  /\ pc' = "done"
                  /\ err' = err
    /\ UNCHANGED <<cmd, cluster, scheduled_at, r, api_log, exc, out>>
    /\ UNCHANGED <<member_locals, failover_locals, not_ctl>>

\* 'This cluster currently is healthy. Please specify the leader name to
\* continue', and the deletion.
remove_leader ==
    /\ pc = "remove_leader"
    /\ \E typed \in Names \cup {""} :
          /\ prompts' = Asked(prompts, "Please specify the leader name to continue", typed)
          /\ IF mismatch(typed, cluster.leader)
             THEN Raise("You did not specify the current leader of the cluster")
                  /\ UNCHANGED dcs_log
             ELSE /\ dcs_log' = Append(dcs_log, delete_cluster)
                  /\ pc' = "done"
                  /\ err' = err
    /\ UNCHANGED <<cmd, cluster, scheduled_at, r, api_log, exc, out>>
    /\ UNCHANGED <<member_locals, failover_locals, not_ctl>>

NextRemove ==
    \/ remove
    \/ remove_name
    \/ remove_message
    \/ remove_leader

SpecRemove == Init /\ [][NextRemove]_vars

\* ----------------------------------------------------------- get_all_members
\* role_choice
RoleChoices == {"leader", "primary", "standby-leader", "replica", "standby", "any", "master"}

\* cluster.leader.data.get('role'): what the member that holds the leader
\* key reports of itself.
LeaderRoles == {"master", "standby_leader", "replica"}

\* The worker groups of a Citus cluster that are read with the snapshot.
MaxWorkers == 1

\* The snapshots get_all_members may be given: some members may have no
\* api_url.
ResolverSnapshots ==
    {c \in {[NoCluster EXCEPT !.members = ms, !.leader = l, !.leader_role = lr, !.api_url = au] :
                ms \in MemberSets, l \in Names \cup {None}, lr \in LeaderRoles,
                au \in SUBSET Names} :
        IsSnapshot(c)}

\* The clusters of the worker groups.
WorkerSnapshots ==
    {c \in {[NoCluster EXCEPT !.members = ms, !.leader = l, !.leader_role = lr, !.api_url = ms] :
                ms \in MemberSets \ {{}}, l \in {NameSeq[1], None}, lr \in LeaderRoles} :
        IsSnapshot(c)}

\* clusters = {0: cluster}, with cluster.workers for a Citus cluster when no
\* group is given: the clusters get_all_members goes through, in order.
clusters_of(c, ws, citus_without_group) == <<c>> \o (IF citus_without_group THEN ws ELSE <<>>)

\* The members yielded for the clusters from the g-th on, each with the
\* number of its group.
RECURSIVE yield_from(_, _, _)
yield_from(clusters, role, g) ==
    IF g > Len(clusters) THEN <<>>
    ELSE LET of_group == get_all_members(clusters[g], role)
         IN  [k \in DOMAIN of_group |-> [group |-> g - 1, name |-> of_group[k]]]
                 \o yield_from(clusters, role, g + 1)

\* list(get_all_members(obj, cluster, group, role))
resolve ==
    /\ pc = "idle"
    /\ \E role \in RoleChoices, c \in ResolverSnapshots, citus_without_group \in BOOLEAN :
        \E ws \in IF citus_without_group
                  THEN UNION {[1..n -> WorkerSnapshots] : n \in 0..MaxWorkers} ELSE {<<>>} :
          /\ cmd' = [NoCommand EXCEPT !.name = "get_all_members", !.role = role]
          /\ cluster' = c
          /\ workers' = ws
          /\ yielded' = yield_from(clusters_of(c, ws, citus_without_group), role, 1)
    /\ pc' = "done"
    /\ UNCHANGED <<leader, candidate, scheduled_at, r, api_log, dcs_log, members, content, pos,
                   prompts, err, exc, out>>
    /\ UNCHANGED <<config, editors, wait_locals, reinit_locals, listed, sorted, fi_vars, apart>>

NextResolver == resolve

SpecResolver == Init /\ [][NextResolver]_vars

\* ------------------------------------------------------------ topology_sort
\* The rows of cluster_as_json(cluster)['members'] that topology_sort reads:
\* the name, whether the role ends with 'leader', and the tag replicatefrom.
\* The names are unique and at most one row is the leader's.
Rows ==
    UNION {{[k \in 1..n |-> [name |-> NameSeq[k], leader |-> NameSeq[k] = l, replicatefrom |-> rf[k]]] :
                l \in {NameSeq[k] : k \in 1..n} \cup {None}, rf \in [1..n -> Names \cup {None}]} :
           n \in 0..MaxMembers}

\* leader = next((m for m in members if m['role'].endswith('leader')), {'name': None})
leader_row(rows) ==
    IF \E k \in DOMAIN rows : rows[k].leader
    THEN rows[CHOOSE k \in DOMAIN rows : rows[k].leader /\ \A j \in 1..(k - 1) : ~rows[j].leader]
    ELSE [name |-> None, leader |-> TRUE, replicatefrom |-> None]

\* replicas
replica_names(rows) == {rows[k].name : k \in {j \in DOMAIN rows : ~rows[j].leader}}

\* parent: the member named by replicatefrom when it is another replica,
\* the leader otherwise.
parent_of(member, rows) ==
    LET parent == member.replicatefrom
    IN  IF Truthy(parent) /\ parent # member.name /\ parent \in replica_names(rows)
        THEN parent
        ELSE leader_row(rows).name

\* topology[name]: the replicas whose parent bears the name, in order.
topology_of(name, rows) ==
    SelectSeq(rows, LAMBDA member : ~member.leader /\ parent_of(member, rows) = name)

\* '{0}+ {1}'.format((' ' * (level - 1) * 2), member['name'])
RECURSIVE Spaces(_)
Spaces(n) == IF n <= 0 THEN "" ELSE " " \o Spaces(n - 1)

indented(level, name) == IF level > 0 THEN Spaces((level - 1) * 2) \o "+ " \o name ELSE name

\* The recursion of generate_topology has gone deeper than there are rows.
RecursionError == <<[name |-> "RecursionError", shown |-> "RecursionError", level |-> -1]>>

RECURSIVE generate_each(_, _, _, _)
RECURSIVE generate_topology_post(_, _, _)
RECURSIVE generate_topology(_, _, _)

\* for member in members: for member in generate_topology(level + 1, member, topology)
generate_each(level, children, rows, k) ==
    IF k > Len(children) THEN <<>>
    ELSE generate_topology(level, children[k], rows) \o generate_each(level, children, rows, k + 1)

\* A traversal that yields a member after the members below it.
generate_topology_post(level, member, rows) ==
    generate_each(level + 1, topology_of(member.name, rows), rows, 1)
        \o (IF member.name # None
            THEN <<[name |-> member.name, shown |-> indented(level, member.name), level |-> level]>>
            ELSE <<>>)

\* generate_topology: the member, under its indented name, then the members
\* below it, each with what is below it.
generate_topology(level, member, rows) ==
    IF level > Len(rows) + 1 THEN RecursionError
    ELSE (IF member.name # None
          THEN <<[name |-> member.name, shown |-> indented(level, member.name), level |-> level]>>
          ELSE <<>>)
             \o generate_each(level + 1, topology_of(member.name, rows), rows, 1)

\* list(topology_sort(members))
topology_sort ==
    /\ pc = "idle"
    /\ \E rows \in Rows :
          /\ listed' = rows
          /\ sorted' = generate_topology(0, leader_row(rows), rows)
    /\ cmd' = [NoCommand EXCEPT !.name = "topology_sort"]
    /\ pc' = "done"
    /\ UNCHANGED <<cluster, leader, candidate, scheduled_at, r, api_log, dcs_log, members, content,
                   pos, prompts, err, exc, out>>
    /\ UNCHANGED <<config, editors, wait_locals, reinit_locals, workers, yielded, fi_vars, apart>>

NextTopology == topology_sort

SpecTopology == Init /\ [][NextTopology]_vars

\* ----------------------------------------------------------- fault injector
\* None, for an optional number: the numbers given are never negative.
NoInt == -1

\* The truth value of an optional number: None and 0 are false.
TruthyInt(n) == n # NoInt /\ n # 0

\* The hits of one fault point.
MaxHits == 3

FAULT_TYPES == {"exception", "sleep"}

\* The arguments fault points are activated with: an exception with a
\* window of hits, or a sleep, with or without its time.
Activations ==
    [fault_type : {"exception"}, start_from : {1}, end_after : {NoInt, 0}, sleep_time : {NoInt}]
        \cup [fault_type : {"exception"}, start_from : {2}, end_after : {NoInt, 2}, sleep_time : {NoInt}]
        \cup [fault_type : {"sleep"}, start_from : {1}, end_after : {NoInt}, sleep_time : {NoInt, 10}]

\* FaultPoint and FaultPointSleep: a point as it is activated, with no hits.
FaultPoint(fault_name, args) ==
    [name |-> fault_name, fault_type |-> args.fault_type, start_from |-> args.start_from,
     end_after |-> args.end_after, sleep_time |-> args.sleep_time, hits |-> 0]

\* _get_fault_point_by_name: the index of the first point of the name, or 0.
get_fault_point_by_name(fault_name) ==
    IF \E k \in DOMAIN fault_points : fault_points[k].name = fault_name
    THEN CHOOSE k \in DOMAIN fault_points :
            /\ fault_points[k].name = fault_name
            /\ \A j \in 1..(k - 1) : fault_points[j].name # fault_name
    ELSE 0

\* A call on the fault injector, as fi_last keeps it: what was called, on
\* which name, with which fault type and sleep time, and what it returned
\* or raised.
Call(op, fault_name, args, result) ==
    [op |-> op, name |-> fault_name, fault_type |-> args.fault_type,
     sleep_time |-> args.sleep_time, result |-> result]

\* A call that takes no fault type.
NoArgs == [fault_type |-> None, sleep_time |-> NoInt]

\* The fault type and the sleep time of an activation.
TypeAndTime(args) == [fault_type |-> args.fault_type, sleep_time |-> args.sleep_time]

\* A thread that is not between the two halves of inject_fault_if_activated.
Idle(t) == fi_threads[t] = NoFault

\* A registry that takes a name it already holds.
already_set_never(fault_name) == FALSE

\* for fp in self._fault_points: if fp.name == fault_name
already_set(fault_name) == \E k \in DOMAIN fault_points : fault_points[k].name = fault_name

\* if fault_type == FAULT_TYPES.SLEEP and not sleep_time
no_sleep_time(args) == args.fault_type = "sleep" /\ ~TruthyInt(args.sleep_time)

\* A thread that can call the injector.
SomeIdle == {t \in Threads : Idle(t)} # {}

\* activate_fault_point, by any thread: the sleep time is looked at before
\* the lock is taken, the names of the registry under the lock.
activate_fault_point ==
    /\ SomeIdle
    /\ \E fault_name \in FaultNames :
          \/ /\ \E given \in {TypeAndTime(args) : args \in Activations} :
                   /\ no_sleep_time(given)
                   /\ fi_last' = Call("activate", fault_name, given,
                                      "ValueError: No sleep_time provided")
             /\ UNCHANGED fault_points
          \/ /\ already_set(fault_name)
             /\ \E given \in {TypeAndTime(args) : args \in Activations} :
                   /\ ~no_sleep_time(given)
                   /\ fi_last' = Call("activate", fault_name, given,
                                      "ValueError: Fault point is already set")
             /\ UNCHANGED fault_points
          \/ /\ ~already_set(fault_name)
             /\ \E args \in Activations :
                   /\ ~no_sleep_time(args)
                   /\ fault_points' = Append(fault_points, FaultPoint(fault_name, args))
                   /\ fi_last' = Call("activate", fault_name, TypeAndTime(args), "None")
    /\ UNCHANGED <<fi_threads, ctl_vars, config, editors, wait_locals, reinit_locals, display_locals, apart>>

\* A removal that empties the registry.
remove_all(points, k) == <<>>

\* self._fault_points.remove(fault_point)
remove_point(points, k) == SubSeq(points, 1, k - 1) \o SubSeq(points, k + 1, Len(points))

\* deactivate_fault_point, by any thread
deactivate_fault_point ==
    /\ SomeIdle
    /\ \E fault_name \in FaultNames :
          LET k == get_fault_point_by_name(fault_name)
          IN  IF k = 0
              THEN /\ fi_last' = Call("deactivate", fault_name, NoArgs, "False")
                   /\ UNCHANGED fault_points
              ELSE /\ fault_points' = remove_point(fault_points, k)
                   /\ fi_last' = Call("deactivate", fault_name, NoArgs, "True")
    /\ UNCHANGED <<fi_threads, ctl_vars, config, editors, wait_locals, reinit_locals, display_locals, apart>>

\* reset, by any thread
reset ==
    /\ SomeIdle
    /\ fault_points' = <<>>
    /\ fi_last' = Call("reset", None, NoArgs, "None")
    /\ UNCHANGED <<fi_threads, ctl_vars, config, editors, wait_locals, reinit_locals, display_locals, apart>>

\* if fault_point.end_after and fault_point.hits > fault_point.end_after
work_is_done(fault_point) ==
    TruthyInt(fault_point.end_after) /\ fault_point.hits > fault_point.end_after

\* current_fault_point = deepcopy(fault_point), as far as it is read after
\* the lock is released.
current(fault_point) ==
    [name |-> fault_point.name, fault_type |-> fault_point.fault_type,
     sleep_time |-> fault_point.sleep_time]

\* inject_fault_if_activated, as far as it holds fi_lock: the hit is counted,
\* and the point is copied when its fault is due, or removed when its work
\* is done.
inject_fault_if_activated(t) ==
    /\ Idle(t)
    /\ \E fault_name \in FaultNames :
          LET k == get_fault_point_by_name(fault_name)
          IN  IF k = 0
              THEN /\ fi_last' = Call("inject", fault_name, NoArgs, "None")
                   /\ UNCHANGED <<fault_points, fi_threads>>
              ELSE LET fault_point == [fault_points[k] EXCEPT !.hits = @ + 1]
                       hit == [fault_points EXCEPT ![k] = fault_point]
                   IN  /\ fault_points[k].hits < MaxHits
                       /\ IF fault_point.hits < fault_point.start_from
                          THEN /\ fault_points' = hit
                               /\ fi_last' = Call("inject", fault_name, NoArgs, "None")
                               /\ UNCHANGED fi_threads
                          ELSE IF work_is_done(fault_point)
                          THEN /\ fault_points' = remove_point(hit, k)
                               /\ fi_last' = Call("inject", fault_name, NoArgs, "None")
                               /\ UNCHANGED fi_threads
                          ELSE /\ fault_points' = hit
                               /\ fi_threads' = [fi_threads EXCEPT ![t] = current(fault_point)]
                               /\ fi_last' = Call("inject", fault_name, NoArgs, "triggered")
    /\ UNCHANGED <<ctl_vars, config, editors, wait_locals, reinit_locals, display_locals, apart>>

\* inject_fault_if_activated, after fi_lock is released: the fault of the
\* copy is carried out, an exception or a sleep.
inject_fault(t) ==
    /\ ~Idle(t)
    /\ fi_last' = Call("fault", fi_threads[t].name, NoArgs,
                       IF fi_threads[t].fault_type = "exception" THEN "Exception" ELSE "time.sleep")
    /\ fi_threads' = [fi_threads EXCEPT ![t] = NoFault]
    /\ UNCHANGED <<fault_points, ctl_vars, config, editors, wait_locals, reinit_locals, display_locals, apart>>

NextInjector ==
    \/ activate_fault_point
    \/ deactivate_fault_point
    \/ reset
    \/ \E t \in Threads :
          \/ inject_fault_if_activated(t)
          \/ inject_fault(t)

SpecInjector == Init /\ [][NextInjector]_vars

\* ------------------------------------------------- fault injector, its lock
\* The calls on the fault injector step by step: fi_lock is taken, the body
\* of the with block runs, the lock is released, and the fault is carried
\* out. All calls are on one fault point.
LockedName == "inject_exception"

LockedCalls == {"activate", "deactivate", "reset", "get_fault_points", "inject"}

\* An acquire that waits for its own thread too, as the one of a Lock.
acquirable_plain(t) == fi_lock.owner = 0

\* RLock.acquire returns at once when no thread owns the lock or when the
\* calling thread does.
acquirable(t) == fi_lock.owner \in {0, t}

\* RLock.acquire, by thread t
acquired(t) == [owner |-> t, count |-> fi_lock.count + 1]

\* RLock.release
released ==
    IF fi_lock.count = 1
    THEN [owner |-> 0, count |-> 0]
    ELSE [owner |-> fi_lock.owner, count |-> fi_lock.count - 1]

\* The hits of the point are within the bound.
CanHit ==
    LET k == get_fault_point_by_name(LockedName)
    IN  IF k = 0 THEN TRUE ELSE fault_points[k].hits < MaxHits

\* with self.fi_lock: thread t enters one of the calls
with_lock(t) ==
    /\ fi_pc[t] = "idle"
    /\ acquirable(t)
    /\ \E op \in LockedCalls :
          /\ op = "inject" => CanHit
          /\ fi_pc' = [fi_pc EXCEPT ![t] = op]
    /\ fi_lock' = acquired(t)
    /\ UNCHANGED <<fi_vars, ctl_vars, config, editors, wait_locals, reinit_locals, display_locals, daemon_vars>>

\* activate_fault_point for a sleep without sleep_time: it raises before
\* it takes the lock
refuse(t) ==
    /\ fi_pc[t] = "idle"
    /\ \E given \in {TypeAndTime(args) : args \in Activations} :
          /\ no_sleep_time(given)
          /\ fi_last' = Call("activate", LockedName, given, "ValueError: No sleep_time provided")
    /\ UNCHANGED <<fault_points, fi_threads, lock_vars, ctl_vars, config, editors, wait_locals,
                   reinit_locals, display_locals, daemon_vars>>

\* activate_fault_point, inside the with block
locked_activate(t) ==
    /\ fi_pc[t] = "activate"
    /\ \E args \in Activations :
          /\ ~no_sleep_time(args)
          /\ IF already_set(LockedName)
             THEN /\ fi_last' = Call("activate", LockedName, TypeAndTime(args),
                                     "ValueError: Fault point is already set")
                  /\ UNCHANGED fault_points
             ELSE /\ fault_points' = Append(fault_points, FaultPoint(LockedName, args))
                  /\ fi_last' = Call("activate", LockedName, TypeAndTime(args), "None")
    /\ fi_lock' = released
    /\ fi_pc' = [fi_pc EXCEPT ![t] = "idle"]
    /\ UNCHANGED <<fi_threads, ctl_vars, config, editors, wait_locals, reinit_locals, display_locals, daemon_vars>>

\* deactivate_fault_point, inside the with block: called by the thread, or
\* by inject_fault_if_activated for a point whose work is done
locked_deactivate(t) ==
    /\ fi_pc[t] \in {"deactivate", "nested"}
    /\ LET k == get_fault_point_by_name(LockedName)
       IN  IF k = 0
           THEN /\ fi_last' = Call("deactivate", LockedName, NoArgs, "False")
                /\ UNCHANGED fault_points
           ELSE /\ fault_points' = remove_point(fault_points, k)
                /\ fi_last' = Call("deactivate", LockedName, NoArgs, "True")
    /\ fi_lock' = released
    /\ fi_pc' = [fi_pc EXCEPT ![t] = IF fi_pc[t] = "nested" THEN "deactivated" ELSE "idle"]
    /\ UNCHANGED <<fi_threads, ctl_vars, config, editors, wait_locals, reinit_locals, display_locals, daemon_vars>>

\* reset, inside the with block
locked_reset(t) ==
    /\ fi_pc[t] = "reset"
    /\ fault_points' = <<>>
    /\ fi_last' = Call("reset", None, NoArgs, "None")
    /\ fi_lock' = released
    /\ fi_pc' = [fi_pc EXCEPT ![t] = "idle"]
    /\ UNCHANGED <<fi_threads, ctl_vars, config, editors, wait_locals, reinit_locals, display_locals, daemon_vars>>

\* get_fault_points, inside the with block
get_fault_points(t) ==
    /\ fi_pc[t] = "get_fault_points"
    /\ fi_last' = Call("get_fault_points", None, NoArgs, "list")
    /\ fi_lock' = released
    /\ fi_pc' = [fi_pc EXCEPT ![t] = "idle"]
    /\ UNCHANGED <<fault_points, fi_threads, ctl_vars, config, editors, wait_locals, reinit_locals,
                   display_locals, daemon_vars>>

\* inject_fault_if_activated, inside the with block: it returns, or goes on
\* to deactivate the point with the lock held, or leaves the block with a
\* copy of the point
locked_inject(t) ==
    /\ fi_pc[t] = "inject"
    /\ LET k == get_fault_point_by_name(LockedName)
       IN  IF k = 0
           THEN /\ fi_last' = Call("inject", LockedName, NoArgs, "None")
                /\ fi_lock' = released
                /\ fi_pc' = [fi_pc EXCEPT ![t] = "idle"]
                /\ UNCHANGED <<fault_points, fi_threads>>
           ELSE LET fault_point == [fault_points[k] EXCEPT !.hits = @ + 1]
                IN  /\ fault_points' = [fault_points EXCEPT ![k] = fault_point]
                    /\ IF fault_point.hits < fault_point.start_from
                       THEN /\ fi_last' = Call("inject", LockedName, NoArgs, "None")
                            /\ fi_lock' = released
                            /\ fi_pc' = [fi_pc EXCEPT ![t] = "idle"]
                            /\ UNCHANGED fi_threads
                       ELSE IF work_is_done(fault_point)
                       THEN /\ fi_pc' = [fi_pc EXCEPT ![t] = "work_is_done"]
                            /\ UNCHANGED <<fi_last, fi_lock, fi_threads>>
                       ELSE /\ fi_threads' = [fi_threads EXCEPT ![t] = current(fault_point)]
                            /\ fi_last' = Call("inject", LockedName, NoArgs, "triggered")
                            /\ fi_lock' = released
                            /\ fi_pc' = [fi_pc EXCEPT ![t] = "effect"]
    /\ UNCHANGED <<ctl_vars, config, editors, wait_locals, reinit_locals, display_locals, daemon_vars>>

\* self.deactivate_fault_point(fault_point.name), called with the lock held:
\* the with block of deactivate_fault_point takes the lock again
nested_with_lock(t) ==
    /\ fi_pc[t] = "work_is_done"
    /\ acquirable(t)
    /\ fi_lock' = acquired(t)
    /\ fi_pc' = [fi_pc EXCEPT ![t] = "nested"]
    /\ UNCHANGED <<fi_vars, ctl_vars, config, editors, wait_locals, reinit_locals, display_locals, daemon_vars>>

\* return, after the point is deactivated: the with block of
\* inject_fault_if_activated is left
inject_return(t) ==
    /\ fi_pc[t] = "deactivated"
    /\ fi_last' = Call("inject", LockedName, NoArgs, "None")
    /\ fi_lock' = released
    /\ fi_pc' = [fi_pc EXCEPT ![t] = "idle"]
    /\ UNCHANGED <<fault_points, fi_threads, ctl_vars, config, editors, wait_locals, reinit_locals,
                   display_locals, daemon_vars>>

\* The fault of the copy is carried out, after the with block: the
\* exception is raised, or the sleep ends.
effect(t) ==
    /\ fi_pc[t] = "effect"
    /\ fi_last' = Call("fault", fi_threads[t].name, NoArgs,
                       IF fi_threads[t].fault_type = "exception" THEN "Exception" ELSE "time.sleep")
    /\ fi_threads' = [fi_threads EXCEPT ![t] = NoFault]
    /\ fi_pc' = [fi_pc EXCEPT ![t] = "idle"]
    /\ UNCHANGED <<fault_points, fi_lock, ctl_vars, config, editors, wait_locals, reinit_locals,
                   display_locals, daemon_vars>>

\* The steps of a thread inside a with block: the thread owns the lock and
\* runs.
Locked(t) ==
    \/ locked_activate(t)
    \/ locked_deactivate(t)
    \/ locked_reset(t)
    \/ get_fault_points(t)
    \/ locked_inject(t)
    \/ nested_with_lock(t)
    \/ inject_return(t)

NextLock ==
    \E t \in Threads :
        \/ with_lock(t)
        \/ refuse(t)
        \/ Locked(t)
        \/ effect(t)

\* A thread that owns the lock goes on; nothing is assumed of a thread that
\* sleeps in a fault, nor of the calls that are made.
SpecLock == Init /\ [][NextLock]_vars /\ \A t \in Threads : WF_vars(Locked(t))

\* ------------------------------------------------------------------ daemon
\* The main thread runs run and then shutdown; sigterm_handler runs on top
\* of it, between two of its steps; the other threads call api_sigterm.
MaxSigterms == 1

not_daemon ==
    <<ctl_vars, config, editors, wait_locals, reinit_locals, display_locals, fi_vars, lock_vars>>

\* The main thread runs its own code: no signal handler is on top of it.
Running == handler.pc = "none"

\* Where the main thread is while it is in the loop of run.
InRun ==
    run_pc \in {"while", "received_sigterm", "if_sighup", "clear", "reload_config", "run_cycle",
                "running"}

\* shutdown has been entered.
ShutdownStarted == run_pc \in {"shutdown", "shutdown_locked", "stopping", "stopped"}

\* The process has ended.
Ended == run_pc \in {"stopped", "aborted"}

\* A loop that calls reload_config before it clears the flag.
after_reload_first(at) ==
    CASE at = "if_sighup" -> "reload_config"
      [] at = "reload_config" -> "clear"
      [] at = "clear" -> "run_cycle"

\* The statements under 'if self._received_sighup', in their order: the
\* flag is cleared, reload_config is called, and _run_cycle follows.
after(at) ==
    CASE at = "if_sighup" -> "clear"
      [] at = "clear" -> "reload_config"
      [] at = "reload_config" -> "run_cycle"

\* One more, up to two.
more(n) == IF n < 2 THEN n + 1 ELSE 2

\* if not self._received_sigterm
first_sigterm == ~received_sigterm

\* while not self.received_sigterm: the property takes _sigterm_lock
run_while ==
    /\ run_pc = "while"
    /\ Running
    /\ sigterm_lock = "free"
    /\ sigterm_lock' = "main"
    /\ run_pc' = "received_sigterm"
    /\ UNCHANGED <<received_sighup, received_sigterm, handler, api, daemon_record, not_daemon>>

\* return self._received_sigterm, with the lock held, and the test of while
run_received_sigterm ==
    /\ run_pc = "received_sigterm"
    /\ Running
    /\ sigterm_lock' = "free"
    /\ run_pc' = IF received_sigterm THEN "returned" ELSE "if_sighup"
    /\ UNCHANGED <<received_sighup, received_sigterm, handler, api, daemon_record, not_daemon>>

\* if self._received_sighup
run_if_sighup ==
    /\ run_pc = "if_sighup"
    /\ Running
    /\ run_pc' = IF received_sighup THEN after("if_sighup") ELSE "run_cycle"
    /\ UNCHANGED <<daemon_flags, handler, api, daemon_record, not_daemon>>

\* self._received_sighup = False
run_clear ==
    /\ run_pc = "clear"
    /\ Running
    /\ received_sighup' = FALSE
    /\ run_pc' = after("clear")
    /\ UNCHANGED <<received_sigterm, sigterm_lock, handler, api, daemon_record, not_daemon>>

\* self.reload_config(True, ...)
run_reload_config ==
    /\ run_pc = "reload_config"
    /\ Running
    /\ hup' = "none"
    /\ run_pc' = after("reload_config")
    /\ UNCHANGED <<daemon_flags, handler, api, sigterms, trues, late_true, term_cycles, not_daemon>>

\* self._run_cycle() is called
run_cycle ==
    /\ run_pc = "run_cycle"
    /\ Running
    /\ run_pc' = "running"
    /\ hup' = CASE hup = "none" -> "none"
                [] hup = "pending" -> "one cycle"
                [] OTHER -> "lost"
    /\ term_cycles' = IF received_sigterm THEN more(term_cycles) ELSE term_cycles
    /\ UNCHANGED <<daemon_flags, handler, api, sigterms, trues, late_true, not_daemon>>

\* _run_cycle returns, or it raises (KeyboardInterrupt is what abstract_main
\* expects) and run is left.
cycle_ends ==
    /\ run_pc = "running"
    /\ Running
    /\ \E ended \in {"while", "exited"} : run_pc' = ended
    /\ UNCHANGED <<daemon_flags, handler, api, daemon_record, not_daemon>>

\* finally: controller.shutdown()
shutdown ==
    /\ run_pc \in {"returned", "exited"}
    /\ Running
    /\ run_pc' = "shutdown"
    /\ UNCHANGED <<daemon_flags, handler, api, daemon_record, not_daemon>>

\* with self._sigterm_lock, in shutdown
shutdown_lock ==
    /\ run_pc = "shutdown"
    /\ Running
    /\ sigterm_lock = "free"
    /\ sigterm_lock' = "main"
    /\ run_pc' = "shutdown_locked"
    /\ UNCHANGED <<received_sighup, received_sigterm, handler, api, daemon_record, not_daemon>>

\* self._received_sigterm = True, and the lock is released
shutdown_set ==
    /\ run_pc = "shutdown_locked"
    /\ Running
    /\ received_sigterm' = TRUE
    /\ sigterm_lock' = "free"
    /\ run_pc' = "stopping"
    /\ UNCHANGED <<received_sighup, handler, api, daemon_record, not_daemon>>

\* self._shutdown() and self.logger.shutdown()
shutdown_ends ==
    /\ run_pc = "stopping"
    /\ Running
    /\ run_pc' = "stopped"
    /\ UNCHANGED <<daemon_flags, handler, api, daemon_record, not_daemon>>

\* sighup_handler, on a SIGHUP
sighup_handler ==
    /\ ~Ended
    /\ received_sighup' = TRUE
    /\ hup' = IF hup = "none" /\ InRun THEN "pending" ELSE hup
    /\ UNCHANGED <<received_sigterm, sigterm_lock, daemon_threads, sigterms, trues, late_true,
                   term_cycles, not_daemon>>

\* sigterm_handler, on a SIGTERM: it runs in the main thread, wherever that
\* thread is
sigterm_handler ==
    /\ ~Ended
    /\ Running
    /\ sigterms < MaxSigterms
    /\ sigterms' = sigterms + 1
    /\ handler' = [pc |-> "api_sigterm", late |-> ShutdownStarted]
    /\ UNCHANGED <<daemon_flags, run_pc, api, trues, late_true, hup, term_cycles, not_daemon>>

\* with self._sigterm_lock, in the api_sigterm of the handler
handler_lock ==
    /\ handler.pc = "api_sigterm"
    /\ sigterm_lock = "free"
    /\ sigterm_lock' = "handler"
    /\ handler' = [handler EXCEPT !.pc = "locked"]
    /\ UNCHANGED <<received_sighup, received_sigterm, run_pc, api, daemon_record, not_daemon>>

\* The rest of api_sigterm in the handler, and sys.exit() when it returned
\* True: SystemExit leaves run, or shutdown.
handler_ends ==
    /\ handler.pc = "locked"
    /\ sigterm_lock' = "free"
    /\ handler' = NoHandler
    /\ IF first_sigterm
       THEN /\ received_sigterm' = TRUE
            /\ trues' = more(trues)
            /\ late_true' = (late_true \/ handler.late)
            /\ run_pc' = IF InRun THEN "exited"
                         ELSE IF run_pc \in {"returned", "exited"} THEN run_pc
                         ELSE "aborted"
       ELSE UNCHANGED <<received_sigterm, trues, late_true, run_pc>>
    /\ UNCHANGED <<received_sighup, api, sigterms, hup, term_cycles, not_daemon>>

\* api_sigterm is called by another thread
api_sigterm(t) ==
    /\ ~Ended
    /\ api[t].pc = "idle"
    /\ api' = [api EXCEPT ![t] = [pc |-> "api_sigterm", late |-> ShutdownStarted]]
    /\ UNCHANGED <<daemon_flags, run_pc, handler, daemon_record, not_daemon>>

\* with self._sigterm_lock, in the api_sigterm of another thread
api_lock(t) ==
    /\ api[t].pc = "api_sigterm"
    /\ sigterm_lock = "free"
    /\ sigterm_lock' = "api"
    /\ api' = [api EXCEPT ![t].pc = "locked"]
    /\ UNCHANGED <<received_sighup, received_sigterm, run_pc, handler, daemon_record, not_daemon>>

\* The rest of api_sigterm in another thread: the flag is tested and set,
\* the lock is released and ret is returned.
api_ends(t) ==
    /\ api[t].pc = "locked"
    /\ sigterm_lock' = "free"
    /\ api' = [api EXCEPT ![t] = NoApiCall]
    /\ IF first_sigterm
       THEN /\ received_sigterm' = TRUE
            /\ trues' = more(trues)
            /\ late_true' = (late_true \/ api[t].late)
       ELSE UNCHANGED <<received_sigterm, trues, late_true>>
    /\ UNCHANGED <<received_sighup, run_pc, handler, sigterms, hup, term_cycles, not_daemon>>

\* The steps of the main thread.
Main ==
    \/ run_while
    \/ run_received_sigterm
    \/ run_if_sighup
    \/ run_clear
    \/ run_reload_config
    \/ run_cycle
    \/ cycle_ends
    \/ shutdown
    \/ shutdown_lock
    \/ shutdown_set
    \/ shutdown_ends

\* The steps of sigterm_handler once it is called.
Handler == handler_lock \/ handler_ends

NextDaemon ==
    \/ Main
    \/ sighup_handler
    \/ sigterm_handler
    \/ Handler
    \/ \E t \in Threads :
          \/ api_sigterm(t)
          \/ api_lock(t)
          \/ api_ends(t)

\* The main thread goes on and gets the lock when it is released again and
\* again, and so does the handler on top of it; a thread that holds the lock
\* goes on. Nothing is assumed of the signals and of the calls.
SpecDaemon ==
    /\ Init
    /\ [][NextDaemon]_vars
    /\ SF_vars(Main)
    /\ SF_vars(Handler)
    /\ \A t \in Threads : WF_vars(api_ends(t))

\* One invocation of a failover, of a switchover or of a command on members.
Next == NextFailover \/ NextMembers

Spec == Init /\ [][Next]_vars

\* ------------------------------------------------------------ edit-config
\* json.dumps(changed_data): the keys that are set, each with its value.
json_dumps(data) == {<<k, data[k]>> : k \in {x \in ConfigKeys : data[x] # None}}

\* cluster.config.data of a snapshot: the document stored under /config.
json_loads(text) ==
    [k \in ConfigKeys |-> IF \E p \in text : p[1] = k THEN (CHOOSE p \in text : p[1] = k)[2] ELSE None]

\* dcs.set_config_value(value, index): the key is written only while its
\* index is the one given, and every write gives it a new index.
set_config_value(value, index) ==
    IF index = config.index
    THEN [ok |-> TRUE, config |-> [data |-> value, index |-> config.index + 1]]
    ELSE [ok |-> FALSE, config |-> config]

\* The options of an invocation: what is edited and how.
\*   kind     "set" for --set/--pg, "apply", "replace", or "editor" for none
\*   stdin    the file of --apply or --replace is '-'
\*   quiet    --quiet: the changes are not shown
\*   doc      the pairs of --set, the YAML of the file, or the text saved
\*            in the editor: a key is left out, null (None) or a value
EditOptions ==
    [kind : {"set", "apply", "replace", "editor"}, stdin : BOOLEAN, force : BOOLEAN,
     quiet : BOOLEAN, doc : [ConfigKeys -> {"left out", None, "30"}]]

\* apply_config_changes: every pair sets its key, or pops it when the value
\* is null.
apply_config_changes(data, doc) ==
    [k \in ConfigKeys |-> IF doc[k] = "left out" THEN data[k] ELSE doc[k]]

\* apply_yaml_file: the options of the file are patched over the data
\* (patch_config of patroni.utils: a value replaces the key, null pops it).
apply_yaml_file(data, doc) ==
    [k \in ConfigKeys |-> IF doc[k] = "left out" THEN data[k] ELSE doc[k]]

\* invoke_editor: the document is whatever the operator saved.
invoke_editor(doc) ==
    [k \in ConfigKeys |-> IF doc[k] = "left out" THEN None ELSE doc[k]]

\* changed_data of edit_config for the options.
changed_data_of(data, o) ==
    CASE o.kind = "replace" -> apply_yaml_file(EmptyConfig, o.doc)
      [] o.kind = "apply" -> apply_yaml_file(data, o.doc)
      [] o.kind = "set" -> apply_config_changes(data, o.doc)
      [] OTHER -> invoke_editor(o.doc)

\* A command that reports 'Not changed' also with --quiet.
not_changed_loud(quiet) == "Not changed"

\* if not quiet: click.echo("Not changed")
not_changed(quiet) == IF quiet THEN None ELSE "Not changed"

\* The invocation has returned or raised: what it read, what it made of it,
\* what it echoed last and what it raised.
Finished(e, read, changed_data, echoed, raised) ==
    editors' = [editors EXCEPT ![e] = [read EXCEPT !.pc = "done", !.changed_data = changed_data,
                                                   !.out = echoed, !.err = raised]]

\* edit_config up to the write: the snapshot is read, the changes are made
\* and shown, and the operator is asked unless --force is given.
edit_config(e) ==
    /\ editors[e].pc = "idle"
    /\ \E o \in EditOptions, confirmed \in BOOLEAN :
        /\ o.stdin => o.kind \in {"apply", "replace"}
        /\ o.force => confirmed
        /\ LET data == json_loads(config.data)
               changed_data == changed_data_of(data, o)
               read == [NoEditor EXCEPT !.index = config.index, !.data = data, !.quiet = o.quiet]
           IN  IF data = changed_data
               THEN Finished(e, read, changed_data, not_changed(o.quiet), None)
               ELSE IF o.stdin /\ ~o.force
               THEN Finished(e, read, changed_data, "Use --force option to apply changes", None)
               ELSE IF ~confirmed
               THEN Finished(e, read, changed_data, None, None)
               ELSE editors' = [editors EXCEPT ![e] = [read EXCEPT !.pc = "write",
                                                                   !.changed_data = changed_data]]
    /\ UNCHANGED <<ctl_vars, config, wait_locals, reinit_locals, aside>>

config_index_fresh(e) == config.index

\* cluster.config.index: the index of the snapshot the invocation read.
config_index(e) == editors[e].index

\* The write of edit_config.
edit_config_write(e) ==
    /\ editors[e].pc = "write"
    /\ LET w == set_config_value(json_dumps(editors[e].changed_data), config_index(e))
       IN  /\ config' = w.config
           /\ IF w.ok
              THEN Finished(e, editors[e], editors[e].changed_data, "Configuration changed", None)
              ELSE Finished(e, editors[e], editors[e].changed_data, None,
                            "Config modification aborted due to concurrent changes")
    /\ UNCHANGED <<ctl_vars, wait_locals, reinit_locals, aside>>

\* Some configuration is stored when the operators start.
InitEdit ==
    /\ InitCtl
    /\ config \in [data : {json_dumps(d) : d \in ConfigData}, index : {0}]
    /\ editors = [e \in Operators |-> NoEditor]

NextEdit == \E e \in Operators : edit_config(e) \/ edit_config_write(e)

SpecEdit == InitEdit /\ [][NextEdit]_vars

\* ------------------------------------------- the commands on the configuration
\* One invocation of pause or resume at the terminal, or the operators'
\* invocations of edit-config.
NoEditing == \A e \in Operators : editors[e].pc = "idle"

NextConfig ==
    \/ NoEditing /\ toggle_pause
    \/ NoEditing /\ patch_member
    \/ NoEditing /\ wait_until_pause_is_applied
    \/ \E e \in Operators : pc = "idle" /\ edit_config(e)
    \/ \E e \in Operators : pc = "idle" /\ edit_config_write(e)

SpecConfig == Init /\ [][NextConfig]_vars

\* ------------------------------------------------- failover and switchover
\* The invocation is a failover or a switchover, and its checks are over.
FailoverValidated == cmd.name \in {"failover", "switchover"} /\ pc \notin {"idle", "validate"}

CitusRefused == err = "For Citus clusters the --group must me specified"

\* The requests for a leader change that went to members and to the DCS.
FailoverRequests == {i \in DOMAIN api_log : api_log[i].endpoint \in {"failover", "switchover"}}

FailoverWrites == {i \in DOMAIN dcs_log : dcs_log[i].op = "manual_failover"}

NothingDispatched == api_log = <<>> /\ dcs_log = <<>>

\* A candidate as the snapshot allows it: none, or a member that is neither
\* the leader nor tagged nofailover.
EligibleOrEmpty(c, l) ==
    \/ ~Truthy(c)
    \/ c \in cluster.members /\ c # cluster.leader /\ c # l /\ c \notin cluster.nofailover

EveryOtherMemberTagged == (cluster.members \ {cluster.leader}) \subseteq cluster.nofailover

\* The command came as far as looking for candidates: a switchover found a
\* leader, and the leader that was named is the snapshot's.
ReachedCandidates ==
    /\ ~CitusRefused
    /\ ~(cmd.action = "switchover" /\ cluster.leader = None)
    /\ leader = cluster.leader

\* C2: every failover/switchover request dispatched, to a member's API or to
\* the DCS, names no candidate or a member of the snapshot that is not the
\* leader and not tagged nofailover. When every member but the leader is
\* tagged nofailover the command is rejected and nothing is dispatched; the
\* message is 'No candidates found' whenever the checks of the leader, which
\* come first, have let the command come to its candidates.
C2_CandidateEligible ==
    /\ \A i \in FailoverRequests :
          EligibleOrEmpty(api_log[i].body.candidate, api_log[i].body.leader)
    /\ \A i \in FailoverWrites : EligibleOrEmpty(dcs_log[i].candidate, dcs_log[i].leader)
    /\ (FailoverValidated /\ EveryOtherMemberTagged) =>
          /\ err # None
          /\ NothingDispatched
          /\ ReachedCandidates => err = "No candidates found"

\* A named candidate went to a member and to the DCS while another member is
\* tagged nofailover.
C2_Witness ==
    /\ pc = "done"
    /\ cluster.nofailover # {}
    /\ Len(api_log) = 1 /\ api_log[1].body.candidate \in cluster.members
    /\ Len(dcs_log) = 1 /\ dcs_log[1].candidate \in cluster.members

\* C3: when the request to the member raises, the command falls back to the
\* DCS: manual_failover is called once, with the leader, the candidate and
\* the schedule that passed the checks and went into the request; a forced
\* failover to B whose leader A refuses the connection calls
\* manual_failover(A, B, None).
C3_FallbackOnTransportError ==
    (pc = "done" /\ cmd.name \in {"failover", "switchover"} /\ exc = "request_patroni") =>
        /\ out = "falling back to DCS"
        /\ Len(dcs_log) = 1
        /\ dcs_log[1].op = "manual_failover"
        /\ LET sent == api_log[Len(api_log)]
           IN  /\ sent.answer = Raised
               /\ dcs_log[1].leader = sent.body.leader
               /\ dcs_log[1].candidate = sent.body.candidate
               /\ failover_value(dcs_log[1].leader, dcs_log[1].candidate,
                                 dcs_log[1].scheduled_at) = sent.body
        /\ dcs_log[1].leader = cluster.leader
        /\ cmd.candidate # None => dcs_log[1].candidate = cmd.candidate
        /\ cmd.scheduled # None => dcs_log[1].scheduled_at = parse_scheduled(cmd.scheduled)
        /\ cmd.action = "failover" => dcs_log[1].scheduled_at = NoDatetime

\* The forced failover from A to B, A refusing the connection.
C3_Witness ==
    /\ pc = "done"
    /\ cmd = FailoverCommand("failover", "failover", None, "B", TRUE, None)
    /\ cluster.leader = "A"
    /\ Len(api_log) = 1 /\ api_log[1].member = "A" /\ api_log[1].answer = Raised
    /\ dcs_log = <<manual_failover("A", "B", NoDatetime, None)>>

\* A forced switchover without --candidate.
ForcedWithoutCandidate ==
    cmd.name \in {"failover", "switchover"} /\ cmd.action = "switchover"
        /\ cmd.force /\ cmd.candidate = None

\* C6 as the specification states it: a forced switchover without a
\* candidate sends the only eligible candidate when there is exactly one.
C6_SendsTheOnlyCandidate ==
    (ForcedWithoutCandidate /\ Cardinality(candidate_names(cluster, cluster.leader)) = 1) =>
        \A i \in FailoverRequests :
            api_log[i].body.candidate \in candidate_names(cluster, cluster.leader)

\* C6, amended: a forced switchover without --candidate picks no candidate,
\* however many are eligible: the request goes to the leader's API with the
\* body {leader: the leader, candidate: None}, and the choice is the
\* member's.
C6_SendsNoCandidate ==
    ForcedWithoutCandidate =>
        /\ \A i \in FailoverRequests :
              /\ api_log[i].member = cluster.leader
              /\ api_log[i].body.leader = cluster.leader
              /\ api_log[i].body.candidate = None
        /\ \A i \in FailoverWrites : dcs_log[i].candidate = None

\* Leader A, B tagged nofailover, C: the request to A names no candidate.
C6_Witness ==
    /\ ForcedWithoutCandidate
    /\ cluster.members = {"A", "B", "C"} /\ cluster.leader = "A" /\ cluster.nofailover = {"B"}
    /\ api_log = <<Answered(Request("A", "post", "switchover",
                                    [leader |-> "A", candidate |-> None, scheduled_at |-> None]),
                            Response(200, ""))>>

\* The member answered 'Server does not support this operation' to the
\* switchover request.
AnsweredNotSupported ==
    /\ cmd.name \in {"failover", "switchover"}
    /\ api_log # <<>>
    /\ api_log[1].answer # Raised
    /\ api_log[1].endpoint = "switchover"
    /\ api_log[1].answer = Response(501, NotSupportedText)

C8_LegacyRetry ==
    cmd.name \in {"failover", "switchover"} =>
        /\ Len(api_log) <= 2
        /\ Len(api_log) = 2 =>
              /\ AnsweredNotSupported
              /\ api_log[2] = [api_log[1] EXCEPT !.endpoint = "failover", !.answer = api_log[2].answer]
              /\ api_log[2].method = "post"
        /\ (AnsweredNotSupported /\ pc \in {"interpret", "fallback", "done"}) => Len(api_log) = 2
        /\ cmd.action = "failover" => Len(api_log) <= 1
        /\ out = "failed" =>
              /\ api_log[Len(api_log)].answer # Raised
              /\ api_log[Len(api_log)].answer.status \notin {200, 202}
        /\ (pc = "done" /\ api_log # <<>> /\ exc = None /\ out # "failed") =>
              api_log[Len(api_log)].answer.status \in {200, 202}

\* The retry on the legacy endpoint was accepted and the command reports it.
C8_Witness ==
    /\ pc = "done" /\ AnsweredNotSupported
    /\ Len(api_log) = 2 /\ api_log[2].answer.status = 200
    /\ out = "answer"

\* C9: a switchover on a snapshot without a leader is rejected with 'This
\* cluster has no leader', a failover is not; and a --leader that is not the
\* snapshot's leader ends either command before anything is dispatched.
C9_LeaderPreconditions ==
    (FailoverValidated /\ ~CitusRefused) =>
        /\ (cmd.action = "switchover" /\ cluster.leader = None) =>
              err = "This cluster has no leader" /\ NothingDispatched
        /\ cmd.action = "failover" => err # "This cluster has no leader"
        /\ (cmd.leader # None /\ cmd.leader # cluster.leader) =>
              err # None /\ NothingDispatched
        /\ (cmd.leader # None /\ cluster.leader # None /\ cmd.leader # cluster.leader) =>
              err = "Member is not the leader of cluster"

\* A failover on a snapshot without a leader went to the candidate's API.
C9_Witness ==
    /\ pc = "done"
    /\ cmd.action = "failover" /\ cluster.leader = None
    /\ Len(api_log) = 1 /\ api_log[1].member = candidate /\ api_log[1].endpoint = "failover"
    /\ api_log[1].answer # Raised /\ out = "answer"

\* ------------------------------------------------------ invalid requests
MemberCommands == {"reload", "restart", "reinit", "flush"}

FailoverCommands == {"failover", "switchover"}

\* The requests to members' APIs that change something.
MutatingRequests == {k \in DOMAIN api_log : api_log[k].method \in {"post", "delete", "patch"}}

NothingMutated == MutatingRequests = {} /\ dcs_log = <<>>

\* The command takes member names: flush switchover takes none.
NamesMembers == cmd.name \in MemberCommands /\ cmd.target # "switchover"

\* A name on the command line, or typed as the candidate, that no member of
\* the snapshot bears.
UnknownNameSupplied ==
    \/ NamesMembers /\ \E n \in cmd.member_names : n \notin cluster.members
    \/ /\ cmd.name \in FailoverCommands
       /\ \/ cmd.leader # None /\ cmd.leader \notin cluster.members
          \/ cmd.candidate # None /\ cmd.candidate \notin cluster.members
          \/ Truthy(candidate) /\ candidate \notin cluster.members

CandidateIsLeader ==
    cmd.name \in FailoverCommands /\ Truthy(candidate) /\ candidate = cluster.leader

NoCandidates ==
    \/ cmd.name \in FailoverCommands /\ candidate_names(cluster, cluster.leader) = {}
    \/ NamesMembers /\ get_all_members(cluster, cmd.role) = <<>>

\* The schedule given, or typed, is a timestamp.
ScheduleGiven ==
    \/ cmd.scheduled # None /\ parse_scheduled(cmd.scheduled) \notin {NoDatetime, ParseError}
    \/ scheduled_at # NoDatetime

ScheduledWhilePaused ==
    cmd.name \in {"restart", "failover", "switchover"} /\ cluster.paused /\ ScheduleGiven

ValidationFails ==
    UnknownNameSupplied \/ CandidateIsLeader \/ NoCandidates \/ ScheduledWhilePaused

\* The checks of the command are over.
Validated == pc \notin {"idle", "get_members", "restart_prepare", "validate"}

\* C1: when the validation of restart, reload, reinit, flush, failover or
\* switchover fails (a name given that is not a member of the cluster, also
\* among names that are; the candidate is the leader; there is no candidate;
\* a schedule on a paused cluster) the command aborts, and no mutating
\* request to a member and no DCS write is made.
C1_InvalidNeverDispatched ==
    ValidationFails =>
        /\ NothingMutated
        /\ pc = "done" => err # None

\* A name that is not a member, given together with one that is.
MixedNames ==
    /\ NamesMembers
    /\ \E n \in cmd.member_names : n \notin cluster.members
    /\ \E n \in cmd.member_names : n \in Range(get_all_members(cluster, cmd.role))

\* What holds of C1 in the code: every failure of the validation but the
\* unknown name that comes with the name of a candidate.
C1_InvalidNeverDispatchedUnlessMixed ==
    (ValidationFails /\ ~MixedNames) =>
        /\ NothingMutated
        /\ Validated => err # None

\* C10: on a paused cluster a restart or a switchover with a schedule is
\* rejected and no request goes to a member; without a schedule, or with
\* 'now', the pause refuses nothing: a restart that passed its checks posts
\* to each of its members, a switchover to the leader.
C10_PausedScheduling ==
    /\ (cmd.name \in {"restart", "failover", "switchover"} /\ cluster.paused /\ ScheduleGiven) =>
          /\ api_log = <<>> /\ dcs_log = <<>>
          /\ Validated => err # None
    /\ (cmd.name \in {"restart", "failover", "switchover"} /\ ~ScheduleGiven) =>
          err \notin {"Can't schedule restart in the paused state",
                      "Can't schedule switchover in the paused state"}
    /\ (cmd.name = "restart" /\ pc = "done" /\ err = None /\ exc = None) =>
          /\ "schedule" \in DOMAIN content <=> ScheduleGiven
          /\ [k \in 1..Len(members) |-> Request(members[k], "post", "restart", content)]
                = SelectSeq(api_log, LAMBDA q : q.method = "post")
    /\ (cmd.name \in FailoverCommands /\ pc = "done" /\ err = None) =>
          /\ api_log # <<>>
          /\ api_log[1] = Answered(Request(cluster.leader, "post", cmd.action,
                                           failover_value(leader, candidate, scheduled_at)),
                                   api_log[1].answer)
             \/ cluster.leader = None

\* An immediate restart on a paused cluster reached its members.
C10_Witness ==
    /\ cmd.name = "restart" /\ cluster.paused /\ cmd.scheduled = "now"
    /\ pc = "done" /\ err = None /\ exc = None
    /\ Len(members) = 2
    /\ api_log = <<Request(members[1], "post", "restart", content),
                   Request(members[2], "post", "restart", content)>>

\* ------------------------------------------------------------ edit-config
Succeeded(e) == editors[e].out = "Configuration changed"

Rejected(e) == editors[e].err = "Config modification aborted due to concurrent changes"

\* C4: edit-config writes with the config index of the snapshot it read.  A
\* write made after someone else changed the configuration is rejected with
\* 'aborted due to concurrent changes' and leaves the configuration as the
\* other writer set it: the writes that took effect are as many as the index
\* has advanced, no two of them were made from the same snapshot, and the
\* stored document is wholly the one of the last of them, never a merge.
C4_ConcurrentEditsRejected ==
    /\ \A e \in Operators : Rejected(e) => editors[e].index < config.index
    /\ \A e \in Operators : Succeeded(e) => editors[e].index < config.index
    /\ \A e1, e2 \in Operators :
        e1 # e2 /\ Succeeded(e1) /\ Succeeded(e2) => editors[e1].index # editors[e2].index
    /\ Cardinality({e \in Operators : Succeeded(e)}) = config.index
    /\ config.index > 0 =>
        \E e \in Operators : /\ Succeeded(e)
                              /\ editors[e].index = config.index - 1
                              /\ config.data = json_dumps(editors[e].changed_data)

\* Two operators read the same snapshot and changed different keys; one
\* write took effect, the other was rejected, and the stored document is
\* the first one's.
C4_Witness ==
    \E e1, e2 \in Operators :
        /\ Succeeded(e1)
        /\ Rejected(e2)
        /\ editors[e1].index = editors[e2].index
        /\ editors[e1].changed_data = [EmptyConfig EXCEPT !["ttl"] = "30"]
        /\ editors[e2].changed_data = [EmptyConfig EXCEPT !["loop_wait"] = "30"]
        /\ config.data = {<<"ttl", "30">>}

\* C5: every write to the DCS carries the index of the snapshot the command
\* read.
C5_EveryWriteCarriesIndex == \A k \in DOMAIN dcs_log : dcs_log[k].index # None


\* ----------------------------------------------------------------- restart
RestartPrompts ==
    {"When should the restart take place", "Are you sure", "Restart if the PostgreSQL version is less"}

\* The operator was asked whether to cancel the schedule of a member.
AskedToCancel == \E k \in DOMAIN prompts : prompts[k].prompt \notin RestartPrompts

\* POST /restart was answered 409 and the restart is not forced.
RestartConflict ==
    cmd.name = "restart" /\ ~cmd.force /\ pc \in {"restart", "done"} /\ r.status = 409

\* C11 as the specification states it: on a 409 without --force the operator
\* is asked whether to cancel the schedule of the member (and on yes DELETE
\* /restart and a fresh POST /restart follow).
C11_ConflictAsksToCancel == RestartConflict => AskedToCancel

\* C11, as the code has it: a 409 to POST /restart is echoed as 'Failed:
\* another restart is already scheduled' and nothing else: restart asks only
\* for the schedule, the confirmation and the version, sends a member one
\* POST at most, and sends DELETE /restart only before the POST, to a member
\* with a scheduled restart, when it is forced and schedules.
C11_ConflictOnlyReported ==
    cmd.name = "restart" =>
        /\ ~AskedToCancel
        /\ (pc \in {"restart", "done"} /\ r.status = 409 /\ exc = None) =>
              out = "Failed: another restart is already scheduled"
        /\ \A j, k \in DOMAIN api_log :
              (j # k /\ api_log[j].member = api_log[k].member) =>
                 /\ api_log[j].method # api_log[k].method
                 /\ j < k => api_log[j].method = "delete" /\ k = j + 1
        /\ \A k \in DOMAIN api_log :
              api_log[k].method = "delete" =>
                 /\ cmd.force
                 /\ "schedule" \in DOMAIN content
                 /\ api_log[k].member \in cluster.scheduled_restart

\* An unforced restart of one member with a scheduled restart was answered
\* 409: the POST is all the member was sent.
C11_Witness ==
    /\ RestartConflict
    /\ pc = "done"
    /\ members = <<"A">>
    /\ "A" \in cluster.scheduled_restart
    /\ "schedule" \in DOMAIN content
    /\ api_log = <<Request("A", "post", "restart", content)>>
    /\ out = "Failed: another restart is already scheduled"


\* ------------------------------------------------------------ pause, resume
\* The wait of a pause or a resume is over.
Waited == cmd.name \in {"pause", "resume"} /\ cmd.wait /\ pc = "done" /\ polls > 0

\* The members of the original snapshot that do not report the flag in the
\* cluster read last.
Laggards == {m \in polled.members : m \in cluster.api_url /\ ((m \in polled.pause) # paused)}

\* The laggards whose key has a new index since the original snapshot.
LaggardsSeen == {m \in Laggards : polled.index[m] # cluster.index[m]}

\* C12 as the specification states it: every member that lags when the
\* budget is spent is named, and none is when all report the flag.
C12_EveryLaggardNamed ==
    Waited => /\ Range(remaining) = Laggards
              /\ err = None

\* C12, as the code has it: when the budget is spent, the members named are
\* the laggards whose key has a new index since the original snapshot; when
\* there is one the message that names them is all that is echoed, and when
\* there is none, as when every member reports the flag within the budget,
\* success is echoed and no member is named.
C12_LaggardsSeenNamed ==
    Waited => /\ Range(remaining) = LaggardsSeen
              /\ out = IF LaggardsSeen = {}
                       THEN pause_success
                       ELSE "members didn't recognized pause state"
              /\ err = None
              /\ Laggards # {} => polls = MaxPolls

\* B and C lag when the budget is spent; only C, whose key has a new index,
\* is named.
C12_Witness ==
    /\ Waited
    /\ cmd.name = "pause"
    /\ cluster.members = {"A", "B", "C"}
    /\ Laggards = {"B", "C"}
    /\ remaining = <<"C">>
    /\ out = "members didn't recognized pause state"

\* The requests of pause and resume that were answered.
PatchAnswered == {k \in DOMAIN api_log : api_log[k].answer # Raised}

\* C13: PATCH /config goes to the leader first, then to the other members
\* that have an api_url, one after another; a request that raises takes the
\* command to the next member and the first answer ends the loop, so at most
\* one member answers; when every request raises the command fails with
\* 'Can not find accessible cluster member' and nothing was accepted.
C13_FirstReachableMember ==
    (cmd.name \in {"pause", "resume"} /\ pc # "idle") =>
        /\ Len(api_log) <= Len(members)
        /\ \A k \in DOMAIN api_log :
              /\ api_log[k].member = members[k]
              /\ api_log[k].method = "patch" /\ api_log[k].endpoint = "config"
              /\ k < Len(api_log) => api_log[k].answer = Raised
        /\ Cardinality(PatchAnswered) <= 1
        /\ pc = "patch" =>
              /\ Range(members) = cluster.api_url
              /\ \A j, k \in DOMAIN members : j # k => members[j] # members[k]
              /\ (cluster.leader \in cluster.api_url) => members[1] = cluster.leader
              /\ \A j, k \in DOMAIN members :
                    (j < k /\ members[j] # cluster.leader /\ members[k] # cluster.leader) =>
                        \E a, b \in DOMAIN NameSeq : a < b /\ NameSeq[a] = members[j] /\ NameSeq[b] = members[k]
        /\ (pc = "done" /\ PatchAnswered = {} /\ cluster.paused # paused) =>
              /\ err = "Can not find accessible cluster member"
              /\ Len(api_log) = Len(members)
              /\ r = NoResponse /\ out = None
        /\ err = "Can not find accessible cluster member" => PatchAnswered = {}
        /\ dcs_log = <<>>

\* The leader B and then A raised, and C answered.
C13_Witness ==
    /\ cmd.name = "pause" /\ pc = "done"
    /\ cluster.leader = "B"
    /\ Len(api_log) = 3
    /\ api_log[1].member = "B" /\ api_log[1].answer = Raised
    /\ api_log[2].member = "A" /\ api_log[2].answer = Raised
    /\ api_log[3].member = "C" /\ api_log[3].answer = Response(200, "")
    /\ out = pause_success


\* ------------------------------------------------------------------- force
\* get_members has returned the members of a command that was given no name
\* and neither --any.
DefaultMembers ==
    /\ NamesMembers /\ cmd.member_names = {} /\ ~cmd.p_any
    /\ pc \notin {"idle", "get_members"} /\ err = None

\* The members that were sent a POST.
Posted == {api_log[k].member : k \in {j \in DOMAIN api_log : api_log[j].method = "post"}}

\* With --force nothing is asked, and with no schedule given the action is
\* immediate: no timestamp, no 'schedule' in the body of the restart, no
\* 'scheduled_at' in the body of the switchover.
ForcedAsksNothing ==
    cmd.force =>
        /\ prompts = <<>>
        /\ cmd.scheduled = None =>
              /\ scheduled_at = NoDatetime
              /\ "schedule" \notin DOMAIN content
              /\ \A k \in DOMAIN api_log :
                    api_log[k].endpoint \in {"failover", "switchover"} /\ api_log[k].method = "post"
                        => api_log[k].body.scheduled_at = None

Declined ==
    \E k \in DOMAIN prompts : prompts[k].prompt = "Are you sure" /\ prompts[k].answer = FALSE

AbortMessages == {"Aborted", "Aborted scheduled", "Aborting", "Aborting scheduled"}

\* C15: without --force, when the operator answers no at the confirmation of
\* restart, reload, reinit, flush restart, failover or switchover, the
\* command ends with an error, and no mutating request to a member's API and
\* no write to the DCS has been made.
C15_DeclinedAborts ==
    Declined =>
        /\ ~cmd.force
        /\ pc = "done" /\ err \in AbortMessages /\ exc = None
        /\ NothingMutated

\* A command has been declined at its confirmation, and has ended.
C15_Witness ==
    /\ Declined /\ pc = "done" /\ err \in AbortMessages
    /\ cmd.name \in MemberCommands \cup FailoverCommands
    /\ cluster.members # {}


\* ------------------------------------------------------------------ remove
\* What the operator typed at the prompt, or None when it was not shown.
TypedAt(prompt) ==
    IF \E k \in DOMAIN prompts : prompts[k].prompt = prompt
    THEN prompts[CHOOSE k \in DOMAIN prompts : prompts[k].prompt = prompt].answer
    ELSE None

Deleted == \E k \in DOMAIN dcs_log : dcs_log[k] = delete_cluster

\* One of the answers typed is not the one asked for.
RemoveMismatch ==
    \/ TypedAt("Please confirm the cluster name to remove") \notin {None, cmd.cluster_name}
    \/ TypedAt("You are about to remove all information in DCS") \notin {None, AwareMessage}
    \/ TypedAt("Please specify the leader name to continue") \notin {None, cluster.leader}

\* C16: remove calls delete_cluster only after the operator typed the name
\* of the cluster, then the phrase 'Yes I am aware', then (when the snapshot
\* has a leader) the name of the leader, each exactly; a mismatch ends the
\* command with an error and the DCS is not written.
C16_RemoveConfirmed ==
    cmd.name = "remove" =>
        /\ Deleted =>
              /\ TypedAt("Please confirm the cluster name to remove") = cmd.cluster_name
              /\ TypedAt("You are about to remove all information in DCS") = AwareMessage
              /\ cluster.leader # None
                    => TypedAt("Please specify the leader name to continue") = cluster.leader
        /\ RemoveMismatch => pc = "done" /\ err # None /\ dcs_log = <<>> /\ api_log = <<>>
        /\ err # None => dcs_log = <<>>

\* The cluster with a leader was deleted after the three answers.
C16_Witness ==
    /\ cmd.name = "remove" /\ pc = "done" /\ err = None
    /\ cluster.leader # None /\ Len(prompts) = 3
    /\ dcs_log = <<delete_cluster>>


\* ------------------------------------------------------ unreachable member
\* C17: for restart, reload and reinit over several members, a member whose
\* API is unreachable is a failure of that member only: nothing is written
\* to the DCS and every other member of the list is still sent its request.
C17_UnreachableMemberOnlyFails ==
    (cmd.name \in {"restart", "reload", "reinit"} /\ pc = "done" /\ err = None) =>
        /\ dcs_log = <<>>
        /\ Range(members) \subseteq Posted


\* ------------------------------------------------------------------- flush
\* The snapshot has no scheduled switchover.
NothingPending ==
    cluster.failover = NoFailoverKey \/ cluster.failover.scheduled_at = NoDatetime

\* No member of the list has a scheduled restart in the snapshot.
NothingScheduled == Range(members) \cap cluster.scheduled_restart = {}

\* flush restart has just echoed the answer of a member to its DELETE.
JustAnswered ==
    /\ cmd.name = "flush" /\ cmd.target = "restart" /\ exc = None
    /\ api_log # <<>> /\ pos \in DOMAIN members
    /\ api_log[Len(api_log)].member = members[pos]

\* A flush on a snapshot with nothing pending sends nothing, writes nothing,
\* says that nothing is scheduled and ends without an error.
FlushNoop ==
    /\ \A k \in DOMAIN api_log :
          (api_log[k].method = "delete" /\ api_log[k].endpoint = "restart")
              => api_log[k].member \in cluster.scheduled_restart
    /\ (cmd.target = "switchover" /\ NothingPending) =>
          /\ api_log = <<>> /\ dcs_log = <<>>
          /\ pc = "done" /\ err = None /\ exc = None
          /\ out = "No pending scheduled switchover"
    /\ (cmd.target = "restart" /\ pc = "done" /\ err = None /\ NothingScheduled) =>
          /\ api_log = <<>> /\ dcs_log = <<>> /\ exc = None
          /\ members # <<>> => out = "No scheduled restart for member"

EveryRequestRaised ==
    /\ cmd.name = "flush" /\ cmd.target = "switchover" /\ ~NothingPending
    /\ \A k \in DOMAIN api_log : api_log[k].answer = Raised

\* C19: flush switchover with a pending scheduled switchover, when the
\* request to every member raises, removes the schedule in the DCS: it
\* calls manual_failover('', '', index=failover.index) with the index of the
\* failover key of the snapshot.
C19_FallbackWhenEveryMemberRaises ==
    (EveryRequestRaised /\ pc = "done") =>
        dcs_log = <<manual_failover("", "", NoDatetime, cluster.failover.index)>>

\* The fallback of flush is made with the index of the snapshot, after
\* members that answered neither 200 nor 404.
C19_FallbackCarriesIndex ==
    (cmd.name = "flush" /\ dcs_log # <<>>) =>
        /\ dcs_log = <<manual_failover("", "", NoDatetime, cluster.failover.index)>>
        /\ ~NothingPending
        /\ Len(api_log) = Len(members)
        /\ \A k \in DOMAIN api_log : api_log[k].answer = Raised \/ api_log[k].answer.status = 503
        /\ api_log # <<>> => api_log[1].answer # Raised


\* ---------------------------------------------------------- schedule input
\* The schedule the command was given: with --scheduled, or typed at the
\* prompt; None when neither.
ScheduleInput ==
    IF cmd.scheduled # None THEN cmd.scheduled
    ELSE IF cmd.name = "restart" THEN TypedAt("When should the restart take place")
    ELSE TypedAt("When should the switchover take place")

Immediate == ScheduleInput \in {None, "now"}

Unparsable == ~Immediate /\ ~Parsable(ScheduleInput)

\* The bodies of the POSTs that were sent.
PostedBodies == {api_log[k].body : k \in {j \in DOMAIN api_log : api_log[j].method = "post"}}

\* C20: a schedule that is absent or the literal 'now' means immediate: the
\* body of the restart has no 'schedule' and the body of the failover or
\* switchover has scheduled_at null; any other input that does not parse as
\* a timestamp ends the command with an error before any request to a member
\* and before any write to the DCS.
C20_ScheduleInput ==
    cmd.name \in {"restart", "failover", "switchover"} =>
        /\ Immediate =>
              /\ scheduled_at = NoDatetime
              /\ \A body \in PostedBodies :
                    IF cmd.name = "restart" THEN "schedule" \notin DOMAIN body
                    ELSE body.scheduled_at = None
              /\ \A k \in DOMAIN dcs_log : dcs_log[k].scheduled_at = NoDatetime
        /\ Unparsable =>
              /\ api_log = <<>> /\ dcs_log = <<>>
              /\ pc \notin {"confirm", "request", "restart"}
              /\ pc = "done" => err # None
              /\ TypedAt("When should the restart take place") = ScheduleInput
                    => err = "Unable to parse scheduled timestamp"

\* A restart asked for 'now' has posted a body, and it has no 'schedule'.
C20_Witness ==
    /\ cmd.name = "restart" /\ ScheduleInput = "now"
    /\ PostedBodies # {} /\ \A body \in PostedBodies : "schedule" \notin DOMAIN body
    /\ pc = "done" /\ err = None /\ exc = None


\* ----------------------------------------------------------- role resolver
Resolved == cmd.name = "get_all_members" /\ pc = "done"

\* The clusters that were gone through, numbered from 0.
Groups == [g \in 0..Len(workers) |-> IF g = 0 THEN cluster ELSE workers[g]]

\* The names yielded for a group, as a sequence and as a set.
YieldedOf(g) == SelectSeq(yielded, LAMBDA y : y.group = g)

YieldedNames(g) == {y.name : y \in Range(YieldedOf(g))}

RECURSIVE MembersIn(_)
MembersIn(g) == IF g < 0 THEN 0 ELSE Cardinality(Groups[g].members) + MembersIn(g - 1)

\* C21: with the role 'any' the members returned are exactly those whose
\* api_url is not empty, and never more than the snapshot has.
C21_AnyReturnsReachableMembers ==
    (Resolved /\ cmd.role = "any") =>
        /\ \A g \in DOMAIN Groups : YieldedNames(g) = Groups[g].api_url
        /\ Len(yielded) <= MembersIn(Len(workers))

\* With the role 'any' every member is returned, once, whatever its api_url.
AnyReturnsEveryMember ==
    (Resolved /\ cmd.role = "any") =>
        /\ \A g \in DOMAIN Groups :
              YieldedNames(g) = Groups[g].members /\ Len(YieldedOf(g)) = Cardinality(Groups[g].members)
        /\ Len(yielded) = MembersIn(Len(workers))

\* C22: with the role 'replica' or 'standby' every member but the current
\* leader is returned, and no member that bears the leader's name.
C22_ReplicasAreAllButTheLeader ==
    (Resolved /\ cmd.role \in {"replica", "standby"}) =>
        \A g \in DOMAIN Groups :
            /\ YieldedNames(g) = Groups[g].members \ {Groups[g].leader}
            /\ Len(YieldedOf(g)) = Cardinality(YieldedNames(g))
            /\ \A y \in Range(yielded) : y.group = g => y.name # Groups[g].leader

\* The replicas of a cluster with a leader and two more members were asked for.
C22_Witness ==
    /\ Resolved /\ cmd.role = "replica"
    /\ cluster.leader # None /\ Cardinality(cluster.members) = 3
    /\ Len(yielded) = 2

\* C23: with the role leader, primary or standby-leader at most one member
\* is returned for each cluster or worker group, the current leader; it is
\* returned for 'primary' or for 'standby-leader' according to the role it
\* reports, never for both.
C23_LeaderByReportedRole ==
    (Resolved /\ cmd.role \in {"leader", "master", "primary", "standby-leader"}) =>
        \A g \in DOMAIN Groups :
            /\ Len(YieldedOf(g)) <= 1
            /\ YieldedNames(g) \subseteq {Groups[g].leader} \ {None}
            /\ YieldedNames(g) # {} =>
                  /\ cmd.role \in {"master", "primary"} => Groups[g].leader_role = "master"
                  /\ cmd.role = "standby-leader" => Groups[g].leader_role = "standby_leader"

\* At most the leader of each group is returned, and a leader that reports
\* 'master' or 'standby_leader' is returned for one of the two roles only.
LeaderUnlessOtherRole ==
    (Resolved /\ cmd.role \in {"leader", "master", "primary", "standby-leader"}) =>
        \A g \in DOMAIN Groups :
            /\ Len(YieldedOf(g)) <= 1
            /\ YieldedNames(g) \subseteq {Groups[g].leader} \ {None}
            /\ YieldedNames(g) # {} =>
                  /\ cmd.role \in {"master", "primary"} => Groups[g].leader_role # "standby_leader"
                  /\ cmd.role = "standby-leader" => Groups[g].leader_role # "master"


\* ---------------------------------------------------------------- topology
Sorted == cmd.name = "topology_sort" /\ pc = "done"

\* The rows that are yielded, and the rows that are given.
SortedNames == {sorted[k].name : k \in DOMAIN sorted}

ListedNames == {listed[k].name : k \in DOMAIN listed}

RowOf(name) == listed[CHOOSE k \in DOMAIN listed : listed[k].name = name]

\* The replica a replica is shown under: the one its replicatefrom names,
\* unless that is itself, the leader, or no member; None for the others.
Up(name) ==
    IF name = None \/ RowOf(name).leader THEN None
    ELSE LET from == RowOf(name).replicatefrom
         IN  IF from # name /\ \E k \in DOMAIN listed : listed[k].name = from /\ ~listed[k].leader
             THEN from ELSE None

RECURSIVE UpN(_, _)
UpN(name, n) == IF n = 0 \/ name = None THEN name ELSE UpN(Up(name), n - 1)

\* The chain of replicatefrom of the member never leaves the replicas: it
\* leads into a cycle.
Lost(name) == UpN(name, Len(listed)) # None

\* C24: topology_sort terminates for every list of members, yields the
\* leader first when there is one, and yields no member more than once, also
\* when the replicatefrom tags form a cycle or a replica names itself.
C24_LeaderFirstNoDuplicates ==
    Sorted =>
        /\ sorted # RecursionError
        /\ (\E k \in DOMAIN listed : listed[k].leader) =>
              /\ sorted # <<>>
              /\ sorted[1].name = leader_row(listed).name /\ sorted[1].level = 0
        /\ \A i, j \in DOMAIN sorted : sorted[i].name = sorted[j].name => i = j
        /\ SortedNames \subseteq ListedNames

\* The replicas B and C of the leader A replicate from each other, and the
\* sort has ended.
C24_Witness ==
    /\ Sorted /\ Len(listed) = 3
    /\ \E k \in DOMAIN listed : listed[k].leader
    /\ \E n \in ListedNames : Lost(n)
    /\ sorted # <<>> /\ sorted # RecursionError

\* C25: topology_sort yields every member it is given, the leader and then
\* its direct and transitive replicas; a replica whose replicatefrom chain
\* forms a cycle is put under the leader, so that no member is left out.
C25_EveryMemberYielded ==
    Sorted => SortedNames = ListedNames

\* The members left out are those whose chain of replicatefrom leads into a
\* cycle of replicas; every other member is yielded, one level below the
\* member it is shown under.
OnlyCyclesLeftOut ==
    Sorted =>
        /\ \A n \in ListedNames : n \in SortedNames <=> ~Lost(n)
        /\ \A k \in DOMAIN sorted :
              sorted[k].level > 1 =>
                  \E j \in 1..(k - 1) :
                      sorted[j].level = sorted[k].level - 1 /\ sorted[j].name = Up(sorted[k].name)


\* ------------------------------------------------------------------ reinit
\* The POSTs of reinit, in order.
ReinitPosts == SelectSeq(api_log, LAMBDA q : q.method = "post" /\ q.endpoint = "reinitialize")

\* The offers to cancel a reinitialize in progress, in order.
Offers == SelectSeq(prompts, LAMBDA p : p.prompt = "Do you want to cancel it")

Accepted == Cardinality({k \in DOMAIN Offers : Offers[k].answer})

\* The member refused the reinitialize as already in progress.
InProgress == r = Response(503, InProgressText)

\* The operator has just said yes, and the request is about to be repeated.
RetryPending == pc = "reinit" /\ exc = None /\ content # <<>>

\* C26: when POST /reinitialize is refused with a text that ends with
\* 'already in progress' and --force is not set, the operator is offered to
\* cancel it; on yes the request is repeated to the same member with force
\* true, on no the member is sent nothing more.  With --force there is no
\* offer and no request is repeated.
C26_OfferToCancel ==
    cmd.name = "reinit" =>
        /\ cmd.force =>
              /\ Offers = <<>>
              /\ \A i, j \in DOMAIN ReinitPosts : ReinitPosts[i].member = ReinitPosts[j].member => i = j
              /\ \A k \in DOMAIN ReinitPosts : ReinitPosts[k].body = ("force" :> TRUE)
        /\ ~cmd.force =>
              /\ InProgress => Offers # <<>> /\ prompts[Len(prompts)] = Offers[Len(Offers)]
              /\ \A k \in DOMAIN ReinitPosts :
                    ReinitPosts[k].body =
                        ("force" :> (k > 1 /\ ReinitPosts[k - 1].member = ReinitPosts[k].member))
              /\ Cardinality({k \in DOMAIN ReinitPosts :
                                k > 1 /\ ReinitPosts[k - 1].member = ReinitPosts[k].member})
                    = Accepted - (IF RetryPending THEN 1 ELSE 0)
        /\ exc = None => Len(ReinitPosts) = pos + Accepted
        /\ \A k \in DOMAIN ReinitPosts : ReinitPosts[k].member \in Range(members)

\* The operator accepted the offer for one member and the command went on
\* to the next.
C26_Witness ==
    /\ cmd.name = "reinit" /\ ~cmd.force /\ pc = "done" /\ exc = None
    /\ Accepted = 1 /\ Len(members) = 2 /\ Len(ReinitPosts) = 3


\* The for loop of the wait has come to the end of the list: one turn of the
\* while loop is over.
TurnOver ==
    /\ cmd.name = "reinit" /\ pc = "reinit_wait" /\ exc = None
    /\ wpos >= Len(wait_on_members)

\* C27: during reinit --wait, in every turn of the polling loop each member
\* that is still waited on is polled exactly once, also in a turn in which
\* another member completes and is taken off the list.
C27_EachWaitedMemberPolledOnce ==
    TurnOver =>
        /\ \A m \in Range(wait_on_members) : \E k \in DOMAIN turn : turn[k] = m
        /\ \A i, j \in DOMAIN turn : turn[i] = turn[j] => i = j

\* No member is polled twice in a turn, and a member still waited on at the
\* end of a turn was polled in it unless the member before it completed.
PolledOnceUnlessSkipped ==
    cmd.name = "reinit" =>
        /\ \A i, j \in DOMAIN turn : turn[i] = turn[j] => i = j
        /\ TurnOver =>
              Cardinality(Range(wait_on_members) \ Range(turn))
                  <= Cardinality(Range(turn) \ Range(wait_on_members))


\* The names of the fault points of a registry.
PointNames(points) == {points[k].name : k \in DOMAIN points}

\* A registry where no two fault points have one name.
NoDuplicates(points) ==
    \A i, j \in DOMAIN points : points[i].name = points[j].name => i = j

\* The point of a name in a registry that holds the name.
PointOf(points, fault_name) ==
    points[CHOOSE k \in DOMAIN points :
              /\ points[k].name = fault_name
              /\ \A j \in 1..(k - 1) : points[j].name # fault_name]

\* A registry without the points of a name.
Without(points, fault_name) ==
    LET Other(point) == point.name # fault_name
    IN  SelectSeq(points, Other)

\* activate_fault_point raised ValueError.
ValueErrors ==
    {"ValueError: No sleep_time provided", "ValueError: Fault point is already set"}

\* C28: the registry never holds two fault points of one name; a call of
\* activate_fault_point on a name that is active, or for a sleep without
\* sleep_time, raises ValueError and leaves the registry as it was.
C28_NoDuplicateNames ==
    [][/\ NoDuplicates(fault_points')
       /\ (/\ fi_last'.op = "activate"
           /\ \/ fi_last'.name \in PointNames(fault_points)
              \/ fi_last'.fault_type = "sleep" /\ fi_last'.sleep_time = NoInt)
          => /\ fi_last'.result \in ValueErrors
             /\ fault_points' = fault_points]_vars

\* A second activation of an active name was refused while another point
\* was active too.
C28_Witness ==
    /\ fi_last.op = "activate"
    /\ fi_last.result = "ValueError: Fault point is already set"
    /\ fi_last.name \in PointNames(fault_points)
    /\ Len(fault_points) = 2

TriggersInsideTheTruthyWindow ==
    [][fi_last'.op = "inject"
       => IF fi_last'.name \in PointNames(fault_points)
          THEN LET point == PointOf(fault_points, fi_last'.name)
                   k == point.hits + 1
                   s == point.start_from
                   e == point.end_after
               IN  /\ fi_last'.result = "triggered" <=> (s <= k /\ (~TruthyInt(e) \/ k <= e))
                   /\ k < s => fi_last'.name \in PointNames(fault_points')
                   /\ (TruthyInt(e) /\ k >= s /\ k > e) => fi_last'.name \notin PointNames(fault_points')
          ELSE /\ fi_last'.result = "None"
               /\ fault_points' = fault_points]_vars

\* A point activated with end_after = 0 has triggered its fault.
TriggeredAfterTheEnd ==
    /\ fi_last.op = "inject"
    /\ fi_last.result = "triggered"
    /\ fi_last.name \in PointNames(fault_points)
    /\ PointOf(fault_points, fi_last.name).end_after = 0

\* C30: deactivate_fault_point returns True and removes the named point, and
\* no other, when the name is active, and returns False and leaves the
\* registry as it was when it is not; reset leaves the registry empty; a call
\* of inject_fault_if_activated on a name that is not active has no effect.
C30_DeactivateAndReset ==
    [][/\ fi_last'.op = "deactivate"
          => IF fi_last'.name \in PointNames(fault_points)
             THEN /\ fi_last'.result = "True"
                  /\ fault_points' = Without(fault_points, fi_last'.name)
             ELSE /\ fi_last'.result = "False"
                  /\ fault_points' = fault_points
       /\ fi_last'.op = "reset" => fault_points' = <<>>
       /\ (fi_last'.op = "inject" /\ fi_last'.name \notin PointNames(fault_points))
          => /\ fi_last'.result = "None"
             /\ fault_points' = fault_points
             /\ fi_threads' = fi_threads]_vars

\* One of two active points was deactivated, and the other one is left.
C30_Witness ==
    /\ fi_last.op = "deactivate"
    /\ fi_last.result = "True"
    /\ Len(fault_points) = 1
    /\ fault_points[1].name # fi_last.name


\* A thread is carrying out a fault.
InEffect(t) == fi_pc[t] = "effect"

\* C31: inject_fault_if_activated carries out the fault after it has released
\* fi_lock, from its copy of the point and without touching the registry;
\* while a thread sleeps in a fault the lock is not its own, and a lock that
\* is owned is released, whatever the sleeping threads do, the nested
\* deactivate_fault_point included.
C31_EffectOutsideTheLock ==
    /\ [](\A t \in Threads : InEffect(t) => fi_lock.owner # t /\ fi_threads[t] # NoFault)
    /\ [][\A t \in Threads :
            (InEffect(t) /\ fi_pc'[t] = "idle")
            => /\ fault_points' = fault_points
               /\ fi_lock' = fi_lock
               /\ fi_last'.name = fi_threads[t].name
               /\ fi_last'.result = (IF fi_threads[t].fault_type = "exception"
                                     THEN "Exception" ELSE "time.sleep")]_vars
    /\ (fi_lock.owner # 0 ~> fi_lock.owner = 0)

\* While one thread sleeps in a fault, another one is in the nested
\* deactivate_fault_point and owns the lock twice.
C31_Witness ==
    \E t, u \in Threads :
        /\ InEffect(t)
        /\ fi_threads[t].fault_type = "sleep"
        /\ fi_pc[u] = "nested"
        /\ fi_lock = [owner |-> u, count |-> 2]


\* What holds of api_sigterm: it returns True to at most one call, whatever
\* threads and handlers call it; once _received_sigterm is set, by a call or
\* by shutdown, no call returns True.
OneTrue ==
    /\ [](trues <= 1)
    /\ [][received_sigterm => trues' = trues]_vars

\* C32: api_sigterm returns True to at most one call, whatever threads and
\* handlers call it, and to no call made after shutdown was entered.
C32_FalseOnceShutdownStarted == trues <= 1 /\ ~late_true

\* sigterm_handler waits for the lock that the main thread, which it has
\* interrupted, holds.
Stuck == handler.pc = "api_sigterm" /\ sigterm_lock = "main"

\* C33: run keeps starting cycles until SIGTERM is flagged; once
\* _received_sigterm is set, at most the cycle of the turn in progress is
\* started, and run ends, each _run_cycle ending.
C33_RunEndsOnSigterm ==
    /\ [](term_cycles <= 1)
    /\ (received_sigterm ~> ~InRun)
    /\ ([]<>(run_pc = "running") \/ <>(~InRun))

\* What holds of run: the same, unless sigterm_handler interrupts the main
\* thread while it holds _sigterm_lock.
RunEndsUnlessStuck ==
    /\ [](term_cycles <= 1)
    /\ (<>Stuck \/ (received_sigterm ~> ~InRun))
    /\ (<>Stuck \/ []<>(run_pc = "running") \/ <>(~InRun))

\* The main thread is stuck in the test of while, with the flag set by
\* another thread.
StuckInRun == Stuck /\ run_pc = "received_sigterm" /\ received_sigterm

\* C40: a SIGHUP is followed by a call of reload_config(True, ...) before
\* the loop has started a cycle of a later turn: at most the cycle of the turn
\* in which it arrived is started first.
C40_NoSighupLost == hup # "lost"

\* A SIGHUP has arrived between the clearing of the flag and the call of
\* reload_config.
C40_Witness ==
    /\ run_pc = "reload_config"
    /\ received_sighup
    /\ hup = "pending"
    /\ sigterms = 0


\* The member's API has accepted the request of this invocation: one of its
\* answers has status 200 or 202.
AcceptedByMember ==
    \E i \in FailoverRequests :
        IF api_log[i].answer = Raised THEN FALSE ELSE api_log[i].answer.status \in {200, 202}

\* C34: in failover and switchover manual_failover is called on the DCS only
\* if no answer of the member's API with status 200 or 202 was received: once
\* the request is accepted the failure of a later step, such as the re-read
\* of the cluster from the DCS, causes no DCS write.
C34_NoWriteOnceAccepted ==
    cmd.name \in {"failover", "switchover"} => (FailoverWrites # {} => ~AcceptedByMember)

\* What holds of the fallback: manual_failover is called only after a step
\* inside the try block raised, and after an accepted answer only when that
\* step is the re-read of the cluster.
WriteOnlyAfterRaise ==
    (cmd.name \in {"failover", "switchover"} /\ FailoverWrites # {}) =>
        /\ exc \in {"request_patroni", "get_cluster"}
        /\ AcceptedByMember <=> exc = "get_cluster"

\* The request was accepted, the re-read of the cluster raised, and
\* manual_failover was called.
WrittenAfterAccepted ==
    /\ pc = "done" /\ cmd.name \in {"failover", "switchover"}
    /\ AcceptedByMember /\ exc = "get_cluster"
    /\ Len(dcs_log) = 1 /\ dcs_log[1].op = "manual_failover"


\* The last answer of the member's API, after the retry where there was one,
\* has a status other than 200 and 202.
RefusedByMember ==
    /\ cmd.name \in {"failover", "switchover"}
    /\ api_log # <<>>
    /\ LET last == api_log[Len(api_log)].answer
       IN  IF last = Raised THEN FALSE ELSE last.status \notin {200, 202}

\* C35: an answer of the member's API with a status other than 200 and 202,
\* after the retry on 501 where it applies, ends the command with the report
\* of the failure and without a DCS write; the report of a failure is made of
\* such an answer only, and the DCS is written only after a raised error.
C35_RefusalIsReported ==
    (cmd.name \in {"failover", "switchover"} /\ pc = "done") =>
        /\ RefusedByMember =>
              /\ out = "failed"
              /\ dcs_log = <<>>
              /\ exc = None
              /\ AnsweredNotSupported => Len(api_log) = 2
        /\ out = "failed" => RefusedByMember
        /\ dcs_log # <<>> =>
              \/ api_log[Len(api_log)].answer = Raised
              \/ exc = "get_cluster"

\* The member refused the switchover with an answer that is not retried: the
\* failure is reported and the DCS is not written.
C35_Witness ==
    /\ pc = "done" /\ cmd.action = "switchover"
    /\ Len(api_log) = 1 /\ api_log[1].answer # Raised
    /\ RefusedByMember /\ ~AnsweredNotSupported
    /\ out = "failed" /\ dcs_log = <<>>


\* The requests to reinitialize sent to members.
ReinitRequests == {i \in DOMAIN api_log : api_log[i].endpoint = "reinitialize"}

\* get_members of reinit has returned or raised.
ReinitResolved == cmd.name = "reinit" /\ pc \notin {"idle", "get_members"}

\* C36: reinit never sends POST /reinitialize to the leader of the snapshot:
\* the members are resolved with the role 'replica', member names that
\* contain only the leader are rejected with 'No replica among provided
\* members', and with no member name and --force no member is reinitialized.
C36_LeaderNeverReinitialized ==
    cmd.name = "reinit" =>
        /\ \A i \in ReinitRequests :
              /\ api_log[i].member # cluster.leader
              /\ api_log[i].member \in cluster.members
              /\ cmd.member_names # {} => api_log[i].member \in cmd.member_names
        /\ (ReinitResolved /\ cmd.member_names = {cluster.leader}) =>
              /\ err = "No role among provided members"
              /\ api_log = <<>>
        /\ (ReinitResolved /\ cmd.member_names = {} /\ cmd.force) =>
              /\ members = <<>>
              /\ api_log = <<>>
              /\ prompts = <<>>

\* The leader A was named together with the replica B: only B is asked to
\* reinitialize.
C36_Witness ==
    /\ cmd.name = "reinit" /\ pc = "done"
    /\ cluster.leader = "A"
    /\ cmd.member_names = {"A", "B"}
    /\ ReinitRequests # {}
    /\ \A i \in ReinitRequests : api_log[i].member = "B"


\* The candidate the operator typed at the prompt, if any.
TypedCandidate ==
    {prompts[k].answer : k \in {j \in DOMAIN prompts : prompts[j].prompt = "Candidate"}}

\* A failover for which no candidate was named, with --candidate or at the
\* prompt.
FailoverWithoutCandidate ==
    /\ cmd.action = "failover"
    /\ ~Truthy(cmd.candidate)
    /\ TypedCandidate \subseteq {""}

\* C37: a failover, as opposed to a switchover, is dispatched only with a
\* candidate that was named, and always with scheduled_at null; without a
\* candidate it ends, forced or not, before any request, and where the
\* cluster has candidates with 'Failover could be performed only to a
\* specific candidate'; the request goes to the API of the snapshot's leader
\* when it has one and to the candidate's otherwise.
C37_FailoverNeedsCandidate ==
    cmd.name \in {"failover", "switchover"} =>
        /\ \A i \in DOMAIN api_log :
              /\ api_log[i].member =
                    IF cluster.leader # None THEN cluster.leader ELSE api_log[i].body.candidate
              /\ cmd.action = "failover" =>
                    /\ api_log[i].endpoint = "failover"
                    /\ Truthy(api_log[i].body.candidate)
                    /\ api_log[i].body.candidate \in {cmd.candidate} \cup TypedCandidate
                    /\ api_log[i].body.scheduled_at = None
                    /\ api_log[i].body.leader = cluster.leader
        /\ \A i \in DOMAIN dcs_log :
              cmd.action = "failover" =>
                    Truthy(dcs_log[i].candidate) /\ dcs_log[i].scheduled_at = NoDatetime
        /\ (FailoverWithoutCandidate /\ pc \notin {"idle", "validate"}) =>
              /\ pc = "done"
              /\ err # None
              /\ NothingDispatched
              /\ (~CitusRefused /\ candidate_names(cluster, cluster.leader) # {}) =>
                    err = "Failover could be performed only to a specific candidate"

\* A forced failover without --candidate was refused; the snapshot has a
\* leader and a member to fail over to.
C37_Witness ==
    /\ pc = "done"
    /\ cmd.action = "failover" /\ cmd.force /\ cmd.candidate = None
    /\ cluster.leader = "A" /\ "B" \in candidate_names(cluster, "A")
    /\ err = "Failover could be performed only to a specific candidate"
    /\ NothingDispatched /\ prompts = <<>>


\* pause was run on a paused cluster, or resume on one that is not paused.
NothingToToggle == cmd.name \in {"pause", "resume"} /\ cluster.paused = (cmd.name = "pause")

\* The invocation of edit-config has made of the configuration what it read.
NothingToEdit(e) == editors[e].pc # "idle" /\ editors[e].changed_data = editors[e].data

\* pause and resume where there is nothing to toggle: the command raises
\* and no member is sent PATCH /config; it raises so in no other case.
ToggleRefused ==
    /\ NothingToToggle =>
          /\ pc = "done"
          /\ err = IF cmd.name = "pause" THEN "Cluster is already paused" ELSE "Cluster is not paused"
          /\ api_log = <<>>
          /\ dcs_log = <<>>
    /\ err \in {"Cluster is already paused", "Cluster is not paused"} => NothingToToggle

\* No step in which an invocation of edit-config finds nothing to edit
\* writes the configuration, and such an invocation never comes to write.
NothingWritten ==
    \A e \in Operators :
        (editors'[e] # editors[e] /\ editors'[e].changed_data = editors'[e].data) =>
            /\ config' = config
            /\ editors[e].pc = "idle"
            /\ editors'[e].pc = "done"

\* C39 as the specification states it: pause on a paused cluster and resume
\* on a cluster that is not paused raise and send no PATCH /config; an
\* edit-config whose result equals the configuration it read reports 'Not
\* changed' and writes nothing to the DCS.
C39_NotChangedReported ==
    /\ [](ToggleRefused)
    /\ [](\A e \in Operators :
            NothingToEdit(e) =>
                editors[e].pc = "done" /\ editors[e].out = "Not changed" /\ editors[e].err = None)
    /\ [][NothingWritten]_vars

\* C39, amended: pause on a paused cluster and resume on a cluster that is
\* not paused raise and send no PATCH /config; an edit-config whose result
\* equals the configuration it read returns without a DCS write, and reports
\* 'Not changed' unless --quiet was given, in which case it prints nothing.
C39_NotChangedUnlessQuiet ==
    /\ [](ToggleRefused)
    /\ [](\A e \in Operators :
            NothingToEdit(e) =>
                /\ editors[e].pc = "done"
                /\ editors[e].out = IF editors[e].quiet THEN None ELSE "Not changed"
                /\ editors[e].err = None)
    /\ [][NothingWritten]_vars

\* An edit-config --quiet that changed nothing has returned without a word,
\* the configuration as it was.
C39_Witness ==
    /\ \E e \in Operators :
          /\ NothingToEdit(e)
          /\ editors[e].quiet
          /\ editors[e].out = None
          /\ editors[e].index = config.index
    /\ config.index = 0

\* pause was refused on a paused cluster.
PauseRefused ==
    /\ cmd.name = "pause" /\ cluster.paused /\ cluster.api_url # {}
    /\ pc = "done" /\ err = "Cluster is already paused" /\ api_log = <<>>


\* The step is a poll of the wait of reinit: GET /patroni to a member.
Poll ==
    /\ pc = "reinit_wait"
    /\ Len(api_log') = Len(api_log) + 1
    /\ api_log'[Len(api_log')].endpoint = "patroni"

\* The member the step polls.
Polled == api_log'[Len(api_log')].member

\* What a step of the wait does: a poll goes to a member still waited on,
\* and either raises, or finds the member creating its replica and leaves
\* the list as it is, or removes the member and reports it completed; no
\* member is ever added, a completion is reported only by such a poll, and
\* the wait ends without an exception only when no member is waited on.
WaitStep ==
    /\ Poll =>
          /\ \E k \in DOMAIN wait_on_members : wait_on_members[k] = Polled
          /\ \/ exc' = "request_patroni" /\ pc' = "done" /\ wait_on_members' = wait_on_members
             \/ /\ waits' = waits + 1
                /\ wait_on_members' = wait_on_members
                /\ pc' = "reinit_wait" /\ out' = out
             \/ /\ waits' = waits
                /\ out' = "Reinitialize is completed"
                /\ Len(wait_on_members') = Len(wait_on_members) - 1
                /\ \A k \in DOMAIN wait_on_members' : wait_on_members'[k] # Polled
                /\ pc' = "reinit_wait"
    /\ pc = "reinit_wait" =>
          /\ \A k \in DOMAIN wait_on_members' :
                \E j \in DOMAIN wait_on_members : wait_on_members[j] = wait_on_members'[k]
          /\ ~Poll => wait_on_members' = wait_on_members /\ out' = out
          /\ (pc' = "done" /\ exc' = None) => wait_on_members = <<>>
    /\ (pc = "reinit" /\ pc' = "done" /\ exc' = None) => wait_on_members = <<>>

\* C38: the wait of reinit --wait ends once every member waited on has
\* reported a state other than 'creating replica' (each reports 'creating
\* replica' at most MaxWaits times); a member that reports another state is
\* reported completed once, removed and never polled again; while a member
\* reports 'creating replica' it stays on the list and the loop goes on.
C38_WaitEnds ==
    /\ [](\A j, k \in DOMAIN wait_on_members : wait_on_members[j] = wait_on_members[k] => j = k)
    /\ [][WaitStep]_vars
    /\ (pc = "reinit_wait" ~> pc = "done")

\* Two members were waited on, one of them was found creating its replica
\* first, and the wait ended with both completed.
C38_Witness ==
    /\ cmd.name = "reinit" /\ cmd.wait
    /\ pc = "done" /\ exc = None
    /\ wait_on_members = <<>>
    /\ waits > 0
    /\ Cardinality({i \in DOMAIN api_log : api_log[i].endpoint = "patroni"}) >= 3
    /\ out = "Reinitialize is completed"

====
